---- MODULE Spec2Model ----
(***************************************************************************)
(* Model of the recruiter chatbot's retrieval-augmented query pipeline:    *)
(* VectorStore (src/src/vector_store.py), LLMInterface                     *)
(* (src/src/llm_interface.py) and RAGSystem (src/src/rag_system.py).       *)
(*                                                                         *)
(* Texts are TLA+ strings.  A Python call is an operator that returns a    *)
(* record whose field "raised" tells whether the call ended by raising.    *)
(* A raise of a library call (Chroma, the remote model, the document       *)
(* loader) is an input of the action that makes the call.                  *)
(***************************************************************************)
EXTENDS Integers, Sequences, FiniteSets, TLC

VARIABLES
    collection,      \* the persisted Chroma collection: a set of entries
    nextId,          \* how many uuid4 values have been drawn so far
    documents_path,  \* RAGSystem.documents_path
    rag,             \* "none" before a RAGSystem exists, "up" afterwards
    added,           \* texts inserted since the collection was last (re)created
    restartsOnly,    \* no maintenance operation has run in this behaviour
    last,            \* what the last operation did and returned
    config,          \* the rate_limiting section of configs/config.yaml
    now,             \* the wall clock, in ticks
    session,         \* st.session_state of one browser session: key -> value
    loggers,         \* src/logger.py: _logger_instance and the threads in
                     \* get_logger()
    starting         \* the RAGSystem constructors that run side by side

vars == <<collection, nextId, documents_path, rag, added, restartsOnly, last,
          config, now, session, loggers, starting>>

\* The state of the Streamlit host (src/streamlit_app.py) and of the
\* logger module.
hostVars == <<config, now, session, loggers, starting>>

----------------------------------------------------------------------------
(* Bounds of the model.                                                    *)

\* uuid4 values that may be drawn in one behaviour.
MaxIds == 5

\* Longest list handed directly to VectorStore.add_documents.
MaxBatch == 2

----------------------------------------------------------------------------
(* The file system: directories of markdown files.  A file is given by its *)
(* path and by the pieces the text splitter cuts it into.                  *)

NoFiles == << >>

CareerFiles ==
    << [source |-> "data/documents/cv.md", pieces |-> <<"py">>],
       [source |-> "notes.md",             pieces |-> <<"ml">>] >>

ExtraFiles ==
    << [source |-> "data/extra/talk.md", pieces |-> <<"db", "db">>] >>

BlankFiles ==
    << [source |-> "data/blank/empty.md", pieces |-> << >>] >>

Paths == {"data/documents", "data/extra", "data/blank", "data/none"}

Files(path) ==
    CASE path = "data/documents" -> CareerFiles
      [] path = "data/extra"     -> ExtraFiles
      [] path = "data/blank"     -> BlankFiles
      [] OTHER                   -> NoFiles

----------------------------------------------------------------------------
(* Helpers on sequences.                                                   *)

Range(s) == {s[i] : i \in 1..Len(s)}

RECURSIVE Flatten(_)
Flatten(ss) ==
    IF ss = << >> THEN << >> ELSE Head(ss) \o Flatten(Tail(ss))

\* How many entries of the collection hold this text and metadata.
Copies(coll, text, meta) ==
    Cardinality({e \in coll : e.document = text /\ e.metadata = meta})

\* How many elements of a sequence of chunks equal c.
Occurrences(chunks, c) ==
    Cardinality({i \in 1..Len(chunks) : chunks[i] = c})

----------------------------------------------------------------------------
(* Python values: None, and the str methods the code uses.                 *)

\* An optional string is << >> (None) or <<s>>.
None == << >>
Some(s) == <<s>>

Min(S) == CHOOSE x \in S : \A y \in S : x <= y
Max(S) == CHOOSE x \in S : \A y \in S : x >= y

Char(s, i) == SubSeq(s, i, i)

Whitespace == {" ", "\n", "\t", "\r"}

\* s.strip()
Strip(s) ==
    LET keep == {i \in 1..Len(s) : Char(s, i) \notin Whitespace}
    IN  IF keep = {} THEN "" ELSE SubSeq(s, Min(keep), Max(keep))

\* s.split(sep) for a separator of one character
Split(s, sep) ==
    LET at == {i \in 1..Len(s) : Char(s, i) = sep}
        n  == Cardinality(at)
        pos(j) == IF j = 0 THEN 0
                  ELSE IF j = n + 1 THEN Len(s) + 1
                  ELSE CHOOSE p \in at : Cardinality({x \in at : x < p}) = j - 1
    IN  [j \in 1..(n + 1) |-> SubSeq(s, pos(j - 1) + 1, pos(j) - 1)]

\* sep.join(parts)
RECURSIVE Join(_, _)
Join(parts, sep) ==
    IF Len(parts) = 0 THEN ""
    ELSE IF Len(parts) = 1 THEN parts[1]
    ELSE parts[1] \o sep \o Join(Tail(parts), sep)

\* parts[:n]
Take(parts, n) == SubSeq(parts, 1, IF Len(parts) < n THEN Len(parts) ELSE n)

\* str(i) for 0 <= i <= 9
Str(i) == SubSeq("0123456789", i + 1, i + 1)

----------------------------------------------------------------------------
(* DocumentProcessor                                                       *)

\* load_documents: one Document per markdown file of the directory.
load_documents(path) == Files(path)

\* chunk_documents: every piece of every document, in order, each carrying
\* the metadata of the document it comes from.
chunk_documents(documents) ==
    Flatten([i \in 1..Len(documents) |->
        [j \in 1..Len(documents[i].pieces) |->
            [page_content |-> documents[i].pieces[j],
             metadata     |-> [source |-> documents[i].source]]]])

----------------------------------------------------------------------------
(* DocumentProcessor.chunk_documents on the text of the documents.          *)
(* DocumentProcessor.__init__ builds RecursiveCharacterTextSplitter(        *)
(* chunk_size, chunk_overlap) with the library's defaults for everything    *)
(* else (separators "\n\n", "\n", " ", ""; separators kept at the start of  *)
(* the piece that follows; len as the length function; chunks stripped),    *)
(* and chunk_documents hands the documents to its split_documents.  The     *)
(* operators below follow that splitter step by step.                       *)

\* The longest document text and the largest chunk_size tried.
MaxText == 5
MaxChunkSize == 3

\* The characters of the document texts tried: a letter and the separators.
Alphabet == {"a", " ", "\n"}

\* The library's default separators, most significant first.
Separators == <<"\n\n", "\n", " ", "">>

\* A splitter built without the chunk_size of the DocumentProcessor: the
\* library's own default of 4000 applies.
TextSplitterDefaultSize(chunk_size, chunk_overlap) ==
    [chunk_size |-> 4000, chunk_overlap |-> chunk_overlap]

\* self.text_splitter = RecursiveCharacterTextSplitter(chunk_size=chunk_size,
\*                                                     chunk_overlap=chunk_overlap)
TextSplitter(chunk_size, chunk_overlap) ==
    [chunk_size |-> chunk_size, chunk_overlap |-> chunk_overlap]

\* The first position from `from` on where sep occurs in text, 0 if none.
FirstAt(text, sep, from) ==
    IF \E i \in from..(Len(text) - Len(sep) + 1) :
           SubSeq(text, i, i + Len(sep) - 1) = sep
    THEN Min({i \in from..(Len(text) - Len(sep) + 1) :
                  SubSeq(text, i, i + Len(sep) - 1) = sep})
    ELSE 0

\* The positions of the occurrences of sep in text, left to right and not
\* overlapping, i being the first of them (0: none).
RECURSIVE MatchesAt(_, _, _)
MatchesAt(text, sep, i) ==
    IF i = 0 THEN << >>
    ELSE <<i>> \o MatchesAt(text, sep, FirstAt(text, sep, i + Len(sep)))

\* The pieces of text that begin at the positions starts.
PiecesAt(text, starts) ==
    [j \in 1..Len(starts) |->
        SubSeq(text, starts[j],
               IF j < Len(starts) THEN starts[j + 1] - 1 ELSE Len(text))]

\* Splitting on a separator, each separator kept at the start of the piece
\* that follows it, empty pieces dropped; on "" the characters of the text.
split_text_with_regex(text, sep) ==
    IF sep = ""
    THEN [j \in 1..Len(text) |-> Char(text, j)]
    ELSE SelectSeq(PiecesAt(text, <<1>> \o MatchesAt(text, sep,
                                                   FirstAt(text, sep, 1))),
                   LAMBDA s : s # "")

\* The total length of the pieces gathered for the chunk being built (the
\* join separator is "" when separators are kept).
TotalLen(current_doc) == Len(Join(current_doc, ""))

\* The gathered pieces joined and stripped: a chunk, or nothing when only
\* whitespace is left.
join_docs(current_doc) ==
    IF Strip(Join(current_doc, "")) = "" THEN << >>
    ELSE <<Strip(Join(current_doc, ""))>>

\* The pieces kept for the next chunk once a chunk is emitted: pieces are
\* dropped from the front while more than chunk_overlap is held, or while
\* the piece of length n still does not fit.
RECURSIVE DropFront(_, _, _)
DropFront(current_doc, n, ts) ==
    IF \/ TotalLen(current_doc) > ts.chunk_overlap
       \/ (TotalLen(current_doc) + n > ts.chunk_size
              /\ TotalLen(current_doc) > 0)
    THEN DropFront(Tail(current_doc), n, ts)
    ELSE current_doc

\* Does adding piece d to the gathered pieces end the chunk being built?
Overflows(current_doc, d, ts) ==
    /\ TotalLen(current_doc) + Len(d) > ts.chunk_size
    /\ Len(current_doc) > 0

\* Merging pieces into chunks: a piece that would take the gathered pieces
\* over chunk_size emits them as a chunk first.
RECURSIVE MergeFrom(_, _, _)
MergeFrom(splits, current_doc, ts) ==
    IF splits = << >> THEN join_docs(current_doc)
    ELSE IF Overflows(current_doc, Head(splits), ts)
    THEN join_docs(current_doc)
             \o MergeFrom(Tail(splits),
                          DropFront(current_doc, Len(Head(splits)), ts)
                              \o <<Head(splits)>>,
                          ts)
    ELSE MergeFrom(Tail(splits), current_doc \o <<Head(splits)>>, ts)

merge_splits(splits, ts) == MergeFrom(splits, << >>, ts)

\* The index of the separator used for text: the first that is "" or occurs
\* in it, else the last.
SeparatorIndex(text, separators) ==
    IF \E i \in 1..Len(separators) :
           separators[i] = "" \/ FirstAt(text, separators[i], 1) # 0
    THEN Min({i \in 1..Len(separators) :
                  separators[i] = "" \/ FirstAt(text, separators[i], 1) # 0})
    ELSE Len(separators)

\* The separators left for the pieces that are still too long.
NewSeparators(text, separators, i) ==
    IF separators[i] # "" /\ FirstAt(text, separators[i], 1) # 0
    THEN SubSeq(separators, i + 1, Len(separators))
    ELSE << >>

\* The recursive splitter: pieces shorter than chunk_size are gathered and
\* merged; a piece that is not is split again on the separators left, or
\* kept whole when none is left.
RECURSIVE SplitPieces(_, _, _, _)
RECURSIVE SplitOn(_, _, _, _)
SplitPieces(splits, good_splits, new_separators, ts) ==
    IF splits = << >>
    THEN IF good_splits # << >> THEN merge_splits(good_splits, ts) ELSE << >>
    ELSE IF Len(Head(splits)) < ts.chunk_size
    THEN SplitPieces(Tail(splits), good_splits \o <<Head(splits)>>,
                     new_separators, ts)
    ELSE (IF good_splits # << >> THEN merge_splits(good_splits, ts)
          ELSE << >>)
         \o (IF new_separators = << >> THEN <<Head(splits)>>
             ELSE SplitOn(Head(splits), new_separators,
                          SeparatorIndex(Head(splits), new_separators), ts))
         \o SplitPieces(Tail(splits), << >>, new_separators, ts)

SplitOn(text, separators, i, ts) ==
    SplitPieces(split_text_with_regex(text, separators[i]), << >>,
                NewSeparators(text, separators, i), ts)

\* text_splitter.split_text(text)
split_text(text, ts) ==
    SplitOn(text, Separators, SeparatorIndex(text, Separators), ts)

\* text_splitter.split_documents(documents): the chunks of every document,
\* in order, each with the metadata of its document.
split_documents(documents, ts) ==
    Flatten([i \in 1..Len(documents) |->
        [j \in 1..Len(split_text(documents[i].page_content, ts)) |->
            [page_content |-> split_text(documents[i].page_content, ts)[j],
             metadata |-> documents[i].metadata]]])

\* DocumentProcessor(chunk_size, chunk_overlap).chunk_documents(documents)
DocumentProcessor_chunk_documents(documents, chunk_size, chunk_overlap) ==
    split_documents(documents, TextSplitter(chunk_size, chunk_overlap))

----------------------------------------------------------------------------
(* VectorStore                                                             *)

\* Ids that do not depend on what was drawn before.
NewIdsFromOne(nid, n) == [i \in 1..n |-> i]

\* ids = [str(uuid.uuid4()) for _ in range(len(documents))]
\* A uuid4 value differs from every value drawn before it.
NewIds(nid, n) == [i \in 1..n |-> nid + i]

\* collection.add(documents, metadatas, ids): Chroma checks that the lists
\* have one length before it stores anything; fail is an embedding or
\* storage error of the call.
CollectionAdd(coll, documents, metadatas, ids, fail) ==
    IF Len(metadatas) # Len(documents) \/ Len(ids) # Len(documents)
    THEN [raised |-> TRUE, error |-> "ValueError", collection |-> coll]
    ELSE IF fail
    THEN [raised |-> TRUE, error |-> "Exception", collection |-> coll]
    ELSE [raised |-> FALSE, error |-> "none",
          collection |-> coll \cup
              {[id |-> ids[i], document |-> documents[i],
                metadata |-> metadatas[i]] : i \in 1..Len(documents)}]

\* What add_documents has done once collection.add has ended as r: n ids
\* were drawn, and an exception of collection.add leaves add_documents.
AfterCollectionAdd(nid, n, r) ==
    [raised |-> r.raised, error |-> r.error, collection |-> r.collection,
     nextId |-> nid + n, stored |-> IF r.raised THEN 0 ELSE n]

\* VectorStore.add_documents(documents, metadatas)
VectorStore_add_documents(coll, nid, documents, metadatas, fail) ==
    IF documents = << >>
    THEN [raised |-> FALSE, error |-> "none", collection |-> coll,
          nextId |-> nid, stored |-> 0]
    ELSE AfterCollectionAdd(nid, Len(documents),
             CollectionAdd(coll, documents, metadatas,
                           NewIds(nid, Len(documents)), fail))

\* The distance Chroma computes between the embeddings of a query and of a
\* stored text; the embedding model is outside the program, so a fixed
\* function of the two texts stands for it.
Distance(query, document) ==
    Cardinality({i \in 1..Len(document) :
                    i > Len(query) \/ Char(query, i) # Char(document, i)})

\* A store that hands back every entry, whatever n_results is.
CollectionQueryAll(coll, query, k) ==
    {r \in [1..Cardinality(coll) -> coll] :
        /\ \A i, j \in 1..Cardinality(coll) : i # j => r[i] # r[j]
        /\ \A i, j \in 1..Cardinality(coll) :
               i < j => Distance(query, r[i].document)
                          <= Distance(query, r[j].document)}

\* collection.query(query_texts=[query], n_results=k): the entries nearest
\* to the query, nearest first; which of several entries at one distance
\* comes first is the store's choice.
CollectionQuery(coll, query, k) ==
    LET n == IF Cardinality(coll) < k THEN Cardinality(coll) ELSE k
    IN  {r \in [1..n -> coll] :
            /\ \A i, j \in 1..n : i # j => r[i] # r[j]
            /\ \A i, j \in 1..n :
                   i < j => Distance(query, r[i].document)
                              <= Distance(query, r[j].document)
            /\ \A e \in coll \ Range(r) : \A i \in 1..n :
                   Distance(query, r[i].document)
                       <= Distance(query, e.document)}

\* collection.query raises: an error of the store (fail), or an n_results
\* that is not positive, which Chroma rejects before it searches.
CollectionQueryRaises(k, fail) == fail \/ k <= 0

\* A loop that builds the list from the last entry to the first.
FormatResultsReversed(query, r) ==
    [i \in 1..Len(r) |->
        [document |-> r[Len(r) + 1 - i].document,
         metadata |-> r[Len(r) + 1 - i].metadata,
         distance |-> Distance(query, r[Len(r) + 1 - i].document),
         id |-> r[Len(r) + 1 - i].id]]

\* The loop of similarity_search that turns Chroma's answer into a list of
\* dictionaries.
FormatResults(query, r) ==
    [i \in 1..Len(r) |->
        [document |-> r[i].document, metadata |-> r[i].metadata,
         distance |-> Distance(query, r[i].document), id |-> r[i].id]]

\* VectorStore.similarity_search(query, k): an exception of collection.query
\* leaves the method; otherwise the answer is formatted and returned.
similarity_search(coll, query, k, fail) ==
    IF CollectionQueryRaises(k, fail)
    THEN {[raised |-> TRUE, results |-> << >>]}
    ELSE {[raised |-> FALSE, results |-> FormatResults(query, r)] :
             r \in CollectionQuery(coll, query, k)}

\* What a similarity_search call can do, the store failing or not.
VS_similarity_search(coll, query, k) ==
    UNION {similarity_search(coll, query, k, fail) : fail \in BOOLEAN}

----------------------------------------------------------------------------
(* LLMInterface                                                            *)

LLM_APOLOGY ==
    "I apologize, but I'm experiencing technical difficulties. Please try again later."

CLARIFY ==
    "I'd be happy to help with your recruiting question. Could you provide more specific details?"

DIRECTIVES ==
    << "Be positive and enthusiastic about opportunities",
       "Highlight relevant experience and achievements",
       "Be honest about your capabilities",
       "Do not include any skills or experence which is not directly stated in the chat context",
       "Show interest in learning and growth",
       "Maintain a professional tone",
       "Keep responses concise but informative (2-3 sentences)",
       "Speak in first person as the candidate",
       "Do not reference specific places of employment or dates",
       "I am not willing to relocate" >>

\* "if context:" is false for None and for the empty string.
Truthy(context) == context # None /\ context[1] # ""

\* A _build_system_message that puts the context in front of the directives.
BuildSystemMessageContextFirst(context) ==
    IF Truthy(context) THEN <<context[1]>> \o DIRECTIVES ELSE DIRECTIVES

\* LLMInterface._build_system_message(context)
build_system_message(context) ==
    IF Truthy(context) THEN Append(DIRECTIVES, context[1]) ELSE DIRECTIVES

\* The loop of _clean_response: the stripped non-blank lines, each once.
RECURSIVE UniqueLines(_, _)
UniqueLines(lines, unique_lines) ==
    IF lines = << >> THEN unique_lines
    ELSE LET line == Strip(Head(lines))
         IN  UniqueLines(Tail(lines),
                 IF line # "" /\ line \notin Range(unique_lines)
                 THEN Append(unique_lines, line) ELSE unique_lines)

MaxLines == 5
MinLength == 10

\* _clean_response without the minimum-length rule of lines 116-117.
CleanResponseNoMinLength(response) ==
    Join(Take(UniqueLines(Split(Strip(response), "\n"), << >>), MaxLines), "\n")

\* A _clean_response that cuts the reply to its first five lines before it
\* drops the blank and the repeated ones.
CleanResponseTruncateFirst(response) ==
    IF Len(Join(UniqueLines(Take(Split(Strip(response), "\n"), MaxLines),
                            << >>), "\n")) < MinLength
    THEN CLARIFY
    ELSE Join(UniqueLines(Take(Split(Strip(response), "\n"), MaxLines),
                          << >>), "\n")

\* A _clean_response that asks for details only when nothing is left.
CleanResponseEmptyOnly(response) ==
    IF Join(Take(UniqueLines(Split(Strip(response), "\n"), << >>), MaxLines),
            "\n") = ""
    THEN CLARIFY
    ELSE Join(Take(UniqueLines(Split(Strip(response), "\n"), << >>),
                   MaxLines), "\n")

\* LLMInterface._clean_response(response)
clean_response(response) ==
    LET lines == Split(Strip(response), "\n")
        cleaned_response == Join(Take(UniqueLines(lines, << >>), MaxLines), "\n")
    IN  IF Len(cleaned_response) < MinLength THEN CLARIFY
        ELSE cleaned_response

\* What the try block of generate_response can meet: an exception while
\* building the system message, in the remote call, while reading the text
\* out of the reply or while cleaning it, or a reply of the model.
GenFaults == {"build", "remote", "extract", "clean"}

\* The try block of LLMInterface.generate_response.
\*   out.fault: the step that raises ("none": no step raises)
\*   out.reply: the text of the model's reply
GenerateTry(prompt, context, out) ==
    LET request == [contents |-> prompt,
                    system_instruction |-> build_system_message(context)]
    IN  IF out.fault # "none"
        THEN [raised |-> TRUE, value |-> "", request |-> request]
        ELSE [raised |-> FALSE, value |-> clean_response(out.reply),
              request |-> request]

\* generate_response without its "except Exception" clause.
GenerateNoHandler(prompt, context, out) ==
    IF out.fault # "none"
    THEN [raised |-> TRUE, value |-> "", context |-> context,
          fault |-> out.fault, logRaised |-> FALSE]
    ELSE [raised |-> FALSE, value |-> clean_response(out.reply),
          context |-> context, fault |-> "none", logRaised |-> FALSE]

\* LLMInterface.generate_response(prompt, context): "except Exception" logs
\* the error (line 80) and returns the apology; out.logRaise tells whether
\* that logger.error call raises, which leaves the handler as an exception.
generate_response(prompt, context, out) ==
    LET t == GenerateTry(prompt, context, out)
    IN  IF ~t.raised
        THEN [raised |-> FALSE, value |-> t.value, context |-> context,
              fault |-> "none", logRaised |-> FALSE]
        ELSE IF out.logRaise
        THEN [raised |-> TRUE, value |-> "", context |-> context,
              fault |-> out.fault, logRaised |-> TRUE]
        ELSE [raised |-> FALSE, value |-> LLM_APOLOGY, context |-> context,
              fault |-> out.fault, logRaised |-> FALSE]

----------------------------------------------------------------------------
(* RAGSystem: construction and maintenance                                 *)

\* The points of _initialize_documents / add_documents at which a library
\* call can raise: reading the count, loading the directory, chunking,
\* inserting.  The first one that raises ends the try block.
InitFaults == {"none", "count", "load", "chunk", "add"}
AddFaults  == {"none", "load", "chunk", "add"}

TextsOf(chunks) == [i \in 1..Len(chunks) |-> chunks[i].page_content]
MetasOf(chunks) == [i \in 1..Len(chunks) |-> chunks[i].metadata]

\* self.vector_store.add_documents(chunk_texts, chunk_metadatas)
AddChunks(coll, nid, chunks, fail) ==
    VectorStore_add_documents(coll, nid, TextsOf(chunks), MetasOf(chunks),
                              fail)

\* The end of the try block of _initialize_documents, r being what
\* vector_store.add_documents did.
InitStored(r) ==
    [raised |-> r.raised, collection |-> r.collection, nextId |-> r.nextId,
     attempted |-> TRUE, stored |-> r.stored]

\* _initialize_documents without the test "existing_count == 0".
InitializeDocumentsNoCountTest(coll, nid, path, fault) ==
    IF fault \in {"count", "load", "chunk"} \/ load_documents(path) = << >>
    THEN [raised |-> fault \in {"count", "load", "chunk"},
          collection |-> coll, nextId |-> nid,
          attempted |-> fault # "count", stored |-> 0]
    ELSE InitStored(AddChunks(coll, nid,
                        chunk_documents(load_documents(path)),
                        fault = "add"))

\* The try block of RAGSystem._initialize_documents.
\*   attempted: the branch "existing_count == 0" was taken
InitializeDocumentsTry(coll, nid, path, fault) ==
    LET stop(att, exc) ==
            [raised |-> exc, collection |-> coll, nextId |-> nid,
             attempted |-> att, stored |-> 0]
    IN
    IF fault = "count" THEN stop(FALSE, TRUE)
    ELSE IF Cardinality(coll) # 0 THEN stop(FALSE, FALSE)
    ELSE IF fault = "load" THEN stop(TRUE, TRUE)
    ELSE IF load_documents(path) = << >> THEN stop(TRUE, FALSE)
    ELSE IF fault = "chunk" THEN stop(TRUE, TRUE)
    ELSE InitStored(AddChunks(coll, nid,
                        chunk_documents(load_documents(path)),
                        fault = "add"))

\* "except Exception" of _initialize_documents: log and continue.
\*   failed: an exception was caught
InitializeDocumentsExcept(t) ==
    [raised |-> FALSE, collection |-> t.collection, nextId |-> t.nextId,
     attempted |-> t.attempted, stored |-> t.stored, failed |-> t.raised]

\* RAGSystem._initialize_documents
InitializeDocuments(coll, nid, path, fault) ==
    InitializeDocumentsExcept(InitializeDocumentsTry(coll, nid, path, fault))

\* The end of the try block of add_documents: return len(chunk_texts).
AddStored(n, r) ==
    [raised |-> r.raised, value |-> n, collection |-> r.collection,
     nextId |-> r.nextId, stored |-> r.stored]

\* The try block of RAGSystem.add_documents.
AddDocumentsTry(coll, nid, path, fault) ==
    LET stop(exc) ==
            [raised |-> exc, value |-> 0, collection |-> coll,
             nextId |-> nid, stored |-> 0]
    IN
    IF fault = "load" THEN stop(TRUE)
    ELSE IF load_documents(path) = << >> THEN stop(FALSE)
    ELSE IF fault = "chunk" THEN stop(TRUE)
    ELSE AddStored(Len(chunk_documents(load_documents(path))),
                   AddChunks(coll, nid,
                       chunk_documents(load_documents(path)),
                       fault = "add"))

\* A handler of add_documents that hands back the number of chunks.
AddDocumentsExceptKeepsValue(t) ==
    [raised |-> FALSE, value |-> t.value, collection |-> t.collection,
     nextId |-> t.nextId, stored |-> t.stored, failed |-> t.raised]

\* "except Exception" of add_documents: log and return 0.
AddDocumentsExcept(t) ==
    [raised |-> FALSE, value |-> IF t.raised THEN 0 ELSE t.value,
     collection |-> t.collection, nextId |-> t.nextId,
     stored |-> t.stored, failed |-> t.raised]

\* RAGSystem.add_documents(documents_path): the number of chunks added.
RAG_add_documents(coll, nid, path, fault) ==
    AddDocumentsExcept(AddDocumentsTry(coll, nid, path, fault))

\* "delete" and "create" are raises of the two client calls of
\* reset_vector_store, the other faults those of the reload.
ResetFaults == {"delete", "create"} \cup InitFaults

\* The end of the try block of reset_vector_store, r being what
\* _initialize_documents did on the new collection.
ResetReloaded(r) ==
    [raised |-> r.raised, collection |-> r.collection, nextId |-> r.nextId,
     deleted |-> TRUE, attempted |-> r.attempted, stored |-> r.stored,
     failed |-> r.failed]

\* The try block of RAGSystem.reset_vector_store: delete the collection,
\* create it again, reload the configured directory.
ResetTry(coll, nid, path, fault) ==
    IF fault = "delete"
    THEN [raised |-> TRUE, collection |-> coll, nextId |-> nid,
          deleted |-> FALSE, attempted |-> FALSE, stored |-> 0,
          failed |-> FALSE]
    ELSE IF fault = "create"
    THEN [raised |-> TRUE, collection |-> {}, nextId |-> nid,
          deleted |-> TRUE, attempted |-> FALSE, stored |-> 0,
          failed |-> FALSE]
    ELSE ResetReloaded(InitializeDocuments({}, nid, path, fault))

\* "except Exception" of reset_vector_store: return False, else True.
\*   failed: the reload caught an exception
ResetExcept(t) ==
    [raised |-> FALSE, value |-> ~t.raised, collection |-> t.collection,
     nextId |-> t.nextId, deleted |-> t.deleted, attempted |-> t.attempted,
     stored |-> t.stored, failed |-> t.failed]

\* RAGSystem.reset_vector_store()
RAG_reset_vector_store(coll, nid, path, fault) ==
    ResetExcept(ResetTry(coll, nid, path, fault))

\* RAGSystem.__init__: the VectorStore and the LLMInterface are built (each
\* constructor may raise, and the exception leaves __init__), then the
\* documents are loaded.
CtorFaults == {"vector_store", "llm"} \cup InitFaults

RAG_init(coll, nid, path, fault) ==
    IF fault \in {"vector_store", "llm"}
    THEN [raised |-> TRUE, collection |-> coll, nextId |-> nid,
          attempted |-> FALSE, stored |-> 0, failed |-> FALSE]
    ELSE InitializeDocuments(coll, nid, path, fault)

----------------------------------------------------------------------------
(* RAGSystem: the query path                                               *)

RAG_APOLOGY ==
    "I apologize, but I'm experiencing technical difficulties. Please try again."

\* max_context_chunks of RAGSystem.query
DefaultK == 3

\* chunk.get('metadata', {}).get('source', 'Unknown source')
SourceOf(chunk) ==
    IF "source" \in DOMAIN chunk.metadata THEN chunk.metadata.source
    ELSE "Unknown source"

\* source.split('/')[-1] if '/' in source else source
SourceName(source) ==
    LET parts == Split(source, "/")
    IN  IF Len(parts) > 1 THEN parts[Len(parts)] ELSE source

\* A part labelled with the whole source path.
ContextPartWholeSource(i, chunk) ==
    "Experience " \o Str(i) \o " (from " \o SourceOf(chunk)
        \o "):\n" \o chunk.document

\* f"Experience {i} (from {source_name}):\n{chunk['document']}"
ContextPart(i, chunk) ==
    "Experience " \o Str(i) \o " (from " \o SourceName(SourceOf(chunk))
        \o "):\n" \o chunk.document

\* A _format_context that joins the parts of an empty result list as well
\* and so returns the empty string for it.
FormatContextEmptyString(chunks, loopRaise, logRaise) ==
    IF loopRaise /\ chunks # << >>
    THEN [raised |-> TRUE, value |-> None, reached |-> {"format", "parts"},
          loopRaised |-> TRUE, logRaised |-> FALSE]
    ELSE [raised |-> logRaise /\ chunks # << >>,
          value |-> IF logRaise /\ chunks # << >> THEN None
                    ELSE Some(Join([i \in 1..Len(chunks) |->
                                       ContextPart(i, chunks[i])], "\n\n")),
          reached |-> IF chunks = << >> THEN {"format"}
                      ELSE {"format", "parts", "L122"},
          loopRaised |-> FALSE, logRaised |-> logRaise /\ chunks # << >>]

\* RAGSystem._format_context(chunks).
\*   loopRaise: building a part raises (a result whose metadata is None or
\*              whose source is not a string)
\*   logRaise:  the logger.info call of line 122 raises
\*   reached:   the steps the call got to
format_context(chunks, loopRaise, logRaise) ==
    IF chunks = << >>
    THEN [raised |-> FALSE, value |-> None, reached |-> {"format"},
          loopRaised |-> FALSE, logRaised |-> FALSE]
    ELSE IF loopRaise
    THEN [raised |-> TRUE, value |-> None, reached |-> {"format", "parts"},
          loopRaised |-> TRUE, logRaised |-> FALSE]
    ELSE LET context_parts == [i \in 1..Len(chunks) |-> ContextPart(i, chunks[i])]
             formatted_context == Join(context_parts, "\n\n")
         IN  IF logRaise
             THEN [raised |-> TRUE, value |-> None,
                   reached |-> {"format", "parts", "L122"},
                   loopRaised |-> FALSE, logRaised |-> TRUE]
             ELSE [raised |-> FALSE, value |-> Some(formatted_context),
                   reached |-> {"format", "parts", "L122"},
                   loopRaised |-> FALSE, logRaised |-> FALSE]

\* The logger calls of the query path in rag_system.py, by line.
RagLogSites == {"L78", "L95", "L99", "L104", "L122"}

\* What one run of query has done so far.
NoTrace ==
    [raised |-> FALSE, value |-> "", reached |-> {}, logRaised |-> {},
     searchCalls |-> 0, searchRaised |-> FALSE, results |-> << >>,
     formatRaised |-> FALSE, context |-> None, gens |-> << >>,
     fallback |-> FALSE]

\* One generate_response call of a run: phase "main" for the call of line 91,
\* "retry" for the call of the handler (line 102).
GenRecord(g, phase) ==
    [phase |-> phase, context |-> g.context, fault |-> g.fault,
     logRaised |-> g.logRaised, raised |-> g.raised, value |-> g.value]

\* The trace after results = similarity_search(question, k) ended as s.
Searched(s) ==
    [NoTrace EXCEPT !.reached = {"L78", "search"}, !.searchCalls = 1,
                    !.searchRaised = s.raised, !.results = s.results,
                    !.raised = s.raised]

\* The trace after context = self._format_context(results) ended as f.
Formatted(t, f) ==
    [t EXCEPT !.reached = @ \cup f.reached,
              !.formatRaised = f.loopRaised,
              !.logRaised = IF f.logRaised THEN {"L122"} ELSE {},
              !.context = f.value,
              !.raised = f.raised]

\* The trace after response = generate_response(question, context) ended
\* as g; l95 tells whether the logger.info call of line 95 raises.
Generated(t, g, l95) ==
    IF g.raised
    THEN [t EXCEPT !.raised = TRUE, !.reached = @ \cup {"gen1"},
                   !.gens = <<GenRecord(g, "main")>>]
    ELSE IF l95
    THEN [t EXCEPT !.raised = TRUE, !.reached = @ \cup {"gen1", "L95"},
                   !.gens = <<GenRecord(g, "main")>>, !.logRaised = {"L95"}]
    ELSE [t EXCEPT !.value = g.value, !.reached = @ \cup {"gen1", "L95"},
                   !.gens = <<GenRecord(g, "main")>>]

\* Lines 87-96 of query, t being the trace up to the context.
QueryGenerate(question, env, t) ==
    IF t.raised THEN t
    ELSE Generated(t, generate_response(question, t.context, env.gen1),
                   "L95" \in env.log)

\* The try block of RAGSystem.query.  env holds what the calls made on the
\* way do:
\*   env.log          the logger calls (by line) that raise when reached
\*   env.search       the outcome of similarity_search
\*   env.formatRaise  whether building the context parts raises
\*   env.gen1         what generate_response(question, context) meets
QueryTry(question, env) ==
    IF "L78" \in env.log
    THEN [NoTrace EXCEPT !.raised = TRUE, !.reached = {"L78"},
                         !.logRaised = {"L78"}]
    ELSE IF env.search.raised THEN Searched(env.search)
    ELSE QueryGenerate(question, env,
             Formatted(Searched(env.search),
                       format_context(env.search.results, env.formatRaise,
                                      "L122" \in env.log)))

\* The handler without its inner try: an exception of the retry leaves query.
RetriedNoInnerTry(h, g, l104) ==
    [h EXCEPT !.raised = g.raised, !.value = g.value,
              !.gens = Append(@, GenRecord(g, "retry"))]

\* The inner try of the handler: generate_response(question) ended as g;
\* when it raised, line 104 logs (l104: that call raises) and the apology
\* is returned.
Retried(h, g, l104) ==
    IF ~g.raised
    THEN [h EXCEPT !.raised = FALSE, !.value = g.value,
                   !.gens = Append(@, GenRecord(g, "retry"))]
    ELSE IF l104
    THEN [h EXCEPT !.raised = TRUE, !.reached = @ \cup {"L104"},
                   !.gens = Append(@, GenRecord(g, "retry")),
                   !.logRaised = @ \cup {"L104"}]
    ELSE [h EXCEPT !.raised = FALSE, !.value = RAG_APOLOGY,
                   !.reached = @ \cup {"L104"},
                   !.gens = Append(@, GenRecord(g, "retry"))]

\* "except Exception" of query (lines 98-105), t being what the try block
\* did: log the error (line 99), then fall back to
\* generate_response(question).
\*   env.gen2  what generate_response(question) of the handler meets
QueryExcept(question, env, t) ==
    IF ~t.raised THEN t
    ELSE IF "L99" \in env.log
    THEN [t EXCEPT !.fallback = TRUE, !.reached = @ \cup {"L99"},
                   !.logRaised = @ \cup {"L99"}]
    ELSE Retried([t EXCEPT !.fallback = TRUE,
                           !.reached = @ \cup {"L99", "gen2"}],
                 generate_response(question, None, env.gen2),
                 "L104" \in env.log)

\* RAGSystem.query(question)
RAG_query(question, env) == QueryExcept(question, env, QueryTry(question, env))

----------------------------------------------------------------------------
(* RAGSystem.get_stats and the Streamlit host's operators.                 *)

\* The try block of get_stats; countRaise: collection.count() raises.
GetStatsTry(coll, model, countRaise) ==
    IF countRaise
    THEN [raised |-> TRUE, error |-> "count failed", value |-> None]
    ELSE [raised |-> FALSE, error |-> "",
          value |-> [documents_loaded |-> Cardinality(coll),
                     vector_store_path |-> "./chroma_db",
                     collection_name |-> "career_docs",
                     model |-> model]]

\* "except Exception" of get_stats: return {"error": str(e)}.
GetStatsExcept(t) ==
    IF t.raised THEN [raised |-> FALSE, value |-> [error |-> t.error]]
    ELSE [raised |-> FALSE, value |-> t.value]

\* RAGSystem.get_stats()
get_stats(coll, model, countRaise) ==
    GetStatsExcept(GetStatsTry(coll, model, countRaise))

\* config.get('model', {}).get('llm_model', 'gemini-2.0-flash-001')
ModelName == "gemini-2.0-flash-001"

\* An initialize_rag_system that hands the RAGSystem back whatever the
\* statistics say.
InitializedIgnoringStats(r, stats) ==
    [value |-> IF r.raised \/ stats.raised THEN None ELSE Some("RAGSystem"),
     collection |-> r.collection, nextId |-> r.nextId,
     constructed |-> ~r.raised,
     stats |-> IF r.raised THEN None ELSE <<stats.value>>]

\* The end of initialize_rag_system, r being what RAGSystem(...) did and
\* stats what get_stats() then returned: None when the constructor raised
\* or when the statistics hold the key "error", else the RAGSystem.
Initialized(r, stats) ==
    [value |-> IF r.raised \/ stats.raised
                   \/ "error" \in DOMAIN stats.value
               THEN None ELSE Some("RAGSystem"),
     collection |-> r.collection, nextId |-> r.nextId,
     constructed |-> ~r.raised,
     stats |-> IF r.raised THEN None ELSE <<stats.value>>]

\* initialize_rag_system(): RAGSystem(model_name=...) over the default
\* documents directory, then get_stats().
initialize_rag_system(coll, nid, path, fault, countRaise) ==
    Initialized(RAG_init(coll, nid, path, fault),
                get_stats(RAG_init(coll, nid, path, fault).collection,
                          ModelName, countRaise))

\* timedelta(minutes=1) and timedelta(hours=1), in ticks of the clock.
MinuteLen == 2
HourLen == 4

\* The request times of a list that are less than d ticks before t.
Younger(times, t, d) == SelectSeq(times, LAMBDA x : t - x < d)

PerMinuteMessage(n) ==
    "Rate limit exceeded: Maximum " \o Str(n) \o " requests per minute"

PerHourMessage(n) ==
    "Rate limit exceeded: Maximum " \o Str(n) \o " requests per hour"

\* A check_rate_limit that keeps every recorded time.
CleanedKeepingAll(s, current_time) ==
    IF "request_times" \in DOMAIN s THEN s
    ELSE s @@ ("request_times" :> << >>)

\* The session state after lines 32-41 of check_rate_limit: request_times
\* exists and holds the times less than an hour old.
Cleaned(s, current_time) ==
    IF "request_times" \in DOMAIN s
    THEN [s EXCEPT !.request_times = Younger(@, current_time, HourLen)]
    ELSE s @@ ("request_times" :> << >>)

\* A rate limiter that refuses only once a limit is exceeded (> for >=).
DecideOffByOne(cfg, s, current_time) ==
    IF Len(Younger(s.request_times, current_time, MinuteLen))
           > cfg.max_requests_per_minute
    THEN [allowed |-> FALSE,
          message |-> <<PerMinuteMessage(cfg.max_requests_per_minute)>>,
          session |-> s]
    ELSE IF Len(s.request_times) > cfg.max_requests_per_hour
    THEN [allowed |-> FALSE,
          message |-> <<PerHourMessage(cfg.max_requests_per_hour)>>,
          session |-> s]
    ELSE [allowed |-> TRUE, message |-> None,
          session |-> [s EXCEPT !.request_times = Append(@, current_time)]]

\* A rate limiter that tests the hourly limit first.
DecideHourFirst(cfg, s, current_time) ==
    IF Len(s.request_times) >= cfg.max_requests_per_hour
    THEN [allowed |-> FALSE,
          message |-> <<PerHourMessage(cfg.max_requests_per_hour)>>,
          session |-> s]
    ELSE IF Len(Younger(s.request_times, current_time, MinuteLen))
                >= cfg.max_requests_per_minute
    THEN [allowed |-> FALSE,
          message |-> <<PerMinuteMessage(cfg.max_requests_per_minute)>>,
          session |-> s]
    ELSE [allowed |-> TRUE, message |-> None,
          session |-> [s EXCEPT !.request_times = Append(@, current_time)]]

\* Lines 43-69 of check_rate_limit, s being the cleaned session state.
Decide(cfg, s, current_time) ==
    IF Len(Younger(s.request_times, current_time, MinuteLen))
           >= cfg.max_requests_per_minute
    THEN [allowed |-> FALSE,
          message |-> <<PerMinuteMessage(cfg.max_requests_per_minute)>>,
          session |-> s]
    ELSE IF Len(s.request_times) >= cfg.max_requests_per_hour
    THEN [allowed |-> FALSE,
          message |-> <<PerHourMessage(cfg.max_requests_per_hour)>>,
          session |-> s]
    ELSE [allowed |-> TRUE, message |-> None,
          session |-> [s EXCEPT !.request_times = Append(@, current_time)]]

\* check_rate_limit(config) at the time current_time = datetime.now().
check_rate_limit(cfg, s, current_time) ==
    Decide(cfg, Cleaned(s, current_time), current_time)

----------------------------------------------------------------------------
(* src/logger.py: the module-level _logger_instance and get_logger().       *)
(* Streamlit runs the script of every session in a thread of its own, in   *)
(* one process; each run executes `logger = get_logger()`.                  *)

\* The threads that run the script, and the calls of get_logger each makes.
MaxSessions == 2
MaxCalls == 2

Sessions == 1..MaxSessions

\* GCPLogger.log_chat_interaction(user_input, bot_response, metadata): the
\* record handed to self.logger.info, its payload being the dict that
\* json.dumps serialises.  log_data.update(metadata) puts the keys of the
\* metadata beside the three fixed keys (a metadata key of the same name
\* replaces the fixed one); an absent or empty metadata adds nothing.
log_chat_interaction(user_input, bot_response, metadata) ==
    [level |-> "INFO",
     payload |-> metadata @@ [event_type |-> "chat_interaction",
                              user_input |-> user_input,
                              bot_response |-> bot_response]]

\* _logger_instance = None at import; no GCPLogger constructed, no thread in
\* get_logger.  made[t] is the object thread t has constructed and not yet
\* stored, held[t] the object its last call returned.
NoLoggers ==
    [instance |-> None,
     constructed |-> 0,
     pc |-> [t \in Sessions |-> "idle"],
     made |-> [t \in Sessions |-> None],
     held |-> [t \in Sessions |-> None],
     calls |-> [t \in Sessions |-> 0]]

----------------------------------------------------------------------------
(* RAGSystem constructors that run side by side over one persist directory *)
(* and collection name (two processes, or two threads of one process).      *)
(* Each runs _initialize_documents; its call of collection.count() and its  *)
(* call of collection.add() are separate requests to the store.             *)

\* The constructors that run side by side.
MaxStarters == 2

Starters == 1..MaxStarters

\* No constructor has reached _initialize_documents.  existing_count[p] is
\* the local variable of constructor p, failed[p] tells that its handler
\* caught an exception.
NoStarting ==
    [pc |-> [p \in Starters |-> "new"],
     existing_count |-> [p \in Starters |-> 0],
     failed |-> [p \in Starters |-> FALSE]]

\* Lines 49-69 of _initialize_documents, after existing_count was read:
\* the load when it is 0, into the collection as it is by then.
InitializeAfterCount(existing_count, coll, nid, path, fault) ==
    IF existing_count # 0 \/ fault \in {"load", "chunk"}
          \/ load_documents(path) = << >>
    THEN [raised |-> existing_count = 0
                        /\ (fault = "load"
                               \/ (fault = "chunk"
                                      /\ load_documents(path) # << >>)),
          collection |-> coll, nextId |-> nid,
          attempted |-> existing_count = 0, stored |-> 0]
    ELSE InitStored(AddChunks(coll, nid,
                        chunk_documents(load_documents(path)),
                        fault = "add"))

----------------------------------------------------------------------------
(* The Streamlit host: configuration and session state.                    *)

\* config['rate_limiting'] as the tests set it up, scaled to the model.
TestConfig == [max_requests_per_minute |-> 2, max_requests_per_hour |-> 3]

\* A session_state without any key.
NoKeys == [k \in {} |-> None]

----------------------------------------------------------------------------
(* Inputs of the operations.                                               *)

BSeq(S, n) == UNION {[1..k -> S] : k \in 0..n}

Texts == {"py"}
Metas == {[source |-> "notes.md"]}

\* The configured documents directory of a deployment.
ConfiguredPaths == {"data/documents", "data/extra", "data/blank", "data/none"}

----------------------------------------------------------------------------
(* State machine of the store's life cycle.                                *)

Init ==
    /\ collection = {}
    /\ nextId = 0
    /\ documents_path \in ConfiguredPaths
    /\ rag = "none"
    /\ added = 0
    /\ restartsOnly = TRUE
    /\ last = [op |-> "start"]
    /\ config = TestConfig
    /\ now = 0
    /\ session = NoKeys
    /\ loggers = NoLoggers
    /\ starting = NoStarting

\* A process start: RAGSystem(documents_path, vector_db_path, collection_name)
\* over the persisted collection.
Construct ==
    \E fault \in CtorFaults :
    \E r \in {RAG_init(collection, nextId, documents_path, fault)} :
        /\ r.nextId <= MaxIds
        /\ collection' = r.collection
        /\ nextId' = r.nextId
        /\ rag' = IF r.raised THEN "none" ELSE "up"
        /\ added' = added + r.stored
        /\ last' = [op |-> "construct", raised |-> r.raised,
                    attempted |-> r.attempted,
                    stored |-> r.stored, failed |-> r.failed,
                    fault |-> IF r.raised \/ r.failed THEN fault ELSE "none"]
        /\ UNCHANGED <<documents_path, restartsOnly>>
        /\ UNCHANGED hostVars

\* rag.add_documents(path), path None standing for the configured directory.
AddDocuments ==
    \E arg \in Paths \cup {"None"}, fault \in AddFaults :
    \E path \in {IF arg = "None" THEN documents_path ELSE arg} :
    \E r \in {RAG_add_documents(collection, nextId, path, fault)} :
        /\ rag = "up"
        /\ r.nextId <= MaxIds
        /\ collection' = r.collection
        /\ nextId' = r.nextId
        /\ added' = added + r.stored
        /\ restartsOnly' = FALSE
        /\ last' = [op |-> "add_documents", raised |-> r.raised,
                    value |-> r.value, path |-> path, stored |-> r.stored,
                    failed |-> r.failed,
                    fault |-> IF r.failed THEN fault ELSE "none"]
        /\ UNCHANGED <<documents_path, rag>>
        /\ UNCHANGED hostVars

\* rag.reset_vector_store().  When the collection was deleted and could not
\* be created again, the instance is left with a handle to a collection
\* that is gone; the next process start creates the collection anew.
ResetVectorStore ==
    \E fault \in ResetFaults :
    \E r \in {RAG_reset_vector_store(collection, nextId, documents_path,
                                    fault)} :
        /\ rag = "up"
        /\ r.nextId <= MaxIds
        /\ collection' = r.collection
        /\ nextId' = r.nextId
        /\ added' = IF r.deleted THEN r.stored ELSE added
        /\ restartsOnly' = FALSE
        /\ last' = [op |-> "reset_vector_store", raised |-> r.raised,
                    value |-> r.value, deleted |-> r.deleted, attempted |-> r.attempted,
                    stored |-> r.stored, failed |-> r.failed,
                    fault |-> IF ~r.value \/ r.failed THEN fault ELSE "none"]
        /\ rag' = IF r.deleted /\ ~r.value THEN "none" ELSE rag
        /\ UNCHANGED documents_path
        /\ UNCHANGED hostVars

\* rag.vector_store.add_documents(documents, metadatas), called directly.
VSAddDocuments ==
    \E documents \in BSeq(Texts, MaxBatch), metadatas \in BSeq(Metas, MaxBatch),
       fail \in BOOLEAN :
    \E r \in {VectorStore_add_documents(collection, nextId, documents,
                                       metadatas, fail)} :
        /\ rag = "up"
        /\ r.nextId <= MaxIds
        /\ collection' = r.collection
        /\ nextId' = r.nextId
        /\ added' = added + r.stored
        /\ restartsOnly' = FALSE
        /\ last' = [op |-> "vs_add_documents", raised |-> r.raised,
                    error |-> r.error, documents |-> Len(documents),
                    metadatas |-> Len(metadatas), stored |-> r.stored]
        /\ UNCHANGED <<documents_path, rag>>
        /\ UNCHANGED hostVars

Next ==
    \/ Construct
    \/ AddDocuments
    \/ ResetVectorStore
    \/ VSAddDocuments

Spec == Init /\ [][Next]_vars

----------------------------------------------------------------------------
(* Properties of the store's life cycle, checked under Spec.               *)
(* last holds what the operation just made did; added counts the texts the *)
(* store accepted since the collection was last emptied.                   *)

\* The chunks of the configured documents directory.
ConfiguredChunks == chunk_documents(load_documents(documents_path))

\* C6: idempotent startup.  A construction whose count() call returns
\* loads the documents directory if and only if the count is 0; on a
\* populated collection it leaves the collection as it is; a load that goes
\* through stores every chunk of the directory once.  So as long as the
\* store has only seen process starts, a populated collection holds every
\* chunk of the directory exactly once and nothing else.
C6_IdempotentStartup ==
    /\ []( (restartsOnly /\ collection # {}) =>
             /\ Cardinality(collection) = Len(ConfiguredChunks)
             /\ \A i \in 1..Len(ConfiguredChunks) :
                    Copies(collection, ConfiguredChunks[i].page_content,
                           ConfiguredChunks[i].metadata)
                        = Occurrences(ConfiguredChunks, ConfiguredChunks[i]) )
    /\ [][ last'.op = "construct" =>
             /\ last'.attempted => Cardinality(collection) = 0
             /\ ( /\ Cardinality(collection) = 0
                  /\ last'.fault \notin {"vector_store", "llm", "count"} )
                    => last'.attempted
             /\ Cardinality(collection) # 0 => collection' = collection
             /\ (last'.attempted /\ ~last'.failed)
                    => Cardinality(collection') = Len(ConfiguredChunks)
         ]_vars

\* A restart over the populated collection that skipped the load.
C6_Witness ==
    /\ restartsOnly
    /\ last.op = "construct"
    /\ ~last.raised
    /\ ~last.attempted
    /\ Cardinality(collection) = 2

\* C7: VectorStore.add_documents called with lists of different lengths,
\* the texts being empty or not, raises a ValueError and stores nothing.
C7_MismatchRaises ==
    (last.op = "vs_add_documents" /\ last.documents # last.metadatas)
        => /\ last.raised
           /\ last.error = "ValueError"
           /\ last.stored = 0

\* C8: the collection holds as many entries as texts were accepted since
\* it was last emptied, under pairwise distinct ids.  An add of n texts
\* with n metadatas that goes through adds n entries under ids no existing
\* entry has and keeps every existing entry, whether or not the same text
\* is stored already; an add of empty lists changes nothing.
C8_CountIsTextsAdded ==
    /\ []( /\ Cardinality(collection) = added
           /\ \A e1, e2 \in collection : e1.id = e2.id => e1 = e2 )
    /\ [][ ( /\ last'.op = "vs_add_documents"
             /\ last'.documents = last'.metadatas
             /\ ~last'.raised )
             => /\ collection \subseteq collection'
                /\ Cardinality(collection')
                       = Cardinality(collection) + last'.documents
                /\ \A e \in collection' \ collection :
                       \A f \in collection : e.id # f.id
                /\ last'.documents = 0 => collection' = collection
         ]_vars

\* A text is added while the collection already holds it.
C8_Witness ==
    /\ last.op = "vs_add_documents"
    /\ last.stored = 2
    /\ Cardinality(collection) >= 3
    /\ Copies(collection, "py", [source |-> "notes.md"]) >= 3

\* C9: RAGSystem.add_documents does not raise and returns the number of
\* chunks it added: the count grows by the returned value, which is the
\* number of chunks of the directory when the call goes through, and 0
\* with the collection unchanged when the directory yields no document or
\* when loading, chunking or inserting raised.
C9_AddDocumentsCounts ==
    [][ last'.op = "add_documents" =>
          /\ ~last'.raised
          /\ collection \subseteq collection'
          /\ Cardinality(collection')
                 = Cardinality(collection) + last'.value
          /\ ~last'.failed
                 => last'.value
                        = Len(chunk_documents(load_documents(last'.path)))
          /\ (last'.failed \/ load_documents(last'.path) = << >>)
                 => (last'.value = 0 /\ collection' = collection)
      ]_vars

\* Two chunks are added to a populated collection and 2 is returned.
C9_Witness ==
    /\ last.op = "add_documents"
    /\ ~last.failed
    /\ last.value = 2
    /\ Cardinality(collection) >= 3

\* C10: reset_vector_store does not raise, and it returns True exactly when
\* the collection was emptied and the reload of the configured directory
\* went through, the collection then holding the chunks of that directory.
C10_ResetReportsOutcome ==
    last.op = "reset_vector_store" =>
        /\ ~last.raised
        /\ last.value <=> (last.deleted /\ ~last.failed)
        /\ last.value => Cardinality(collection) = Len(ConfiguredChunks)

----------------------------------------------------------------------------
(* State machine of direct searches: the store is filled by process starts *)
(* and direct adds, and searched with any k.                               *)

\* Largest k handed to similarity_search.
MaxK == 3

SearchQueries == {"py?", "d"}

\* vector_store.similarity_search(query, k), called directly.
SimilaritySearch ==
    \E query \in SearchQueries, k \in 0..MaxK, fail \in BOOLEAN :
    \E r \in similarity_search(collection, query, k, fail) :
        /\ rag = "up"
        /\ last' = [op |-> "similarity_search", query |-> query, k |-> k,
                    fail |-> fail, raised |-> r.raised,
                    results |-> r.results]
        /\ UNCHANGED <<collection, nextId, documents_path, rag, added,
                       restartsOnly>>
        /\ UNCHANGED hostVars

NextSearch ==
    \/ Construct
    \/ VSAddDocuments
    \/ SimilaritySearch

SpecSearch == Init /\ [][NextSearch]_vars

\* C12: a similarity_search call with k >= 1 that meets no error of the
\* store returns min(k, number of stored entries) results: never more than
\* k, all entries when k exceeds their number, and the empty list over the
\* empty collection.
C12_ResultCount ==
    (last.op = "similarity_search" /\ last.k >= 1 /\ ~last.fail)
        => /\ ~last.raised
           /\ Len(last.results) = Min({last.k, Cardinality(collection)})

\* k exceeds the size of a populated collection and every entry comes back.
C12_Witness ==
    /\ last.op = "similarity_search"
    /\ ~last.fail
    /\ Cardinality(collection) = 2
    /\ last.k = 3
    /\ Len(last.results) = 2

\* C13: similarity_search(query, 0) returns the empty list and does not
\* raise, whatever the collection holds (the store meeting no error).
C13_ZeroKReturnsEmpty ==
    (last.op = "similarity_search" /\ last.k = 0 /\ ~last.fail)
        => (~last.raised /\ last.results = << >>)

\* C14: the results of similarity_search come nearest first: the distance
\* of result i is at most that of result i+1, and the list is, entry by
\* entry, one of the rankings of the store for this query and k.
C14_OrderedByDistance ==
    (last.op = "similarity_search" /\ ~last.raised)
        => /\ \A i \in 1..(Len(last.results) - 1) :
                  last.results[i].distance <= last.results[i + 1].distance
           /\ \E r \in CollectionQuery(collection, last.query, last.k) :
                  /\ Len(r) = Len(last.results)
                  /\ \A i \in 1..Len(r) :
                         /\ last.results[i].id = r[i].id
                         /\ last.results[i].document = r[i].document
                         /\ last.results[i].metadata = r[i].metadata

\* Three results at two different distances.
C14_Witness ==
    /\ last.op = "similarity_search"
    /\ Len(last.results) = 3
    /\ last.results[1].distance < last.results[3].distance

----------------------------------------------------------------------------
(* State machine of the query path.                                        *)

Questions == {"py?", ""}

RawReplies ==
    {"", " I know Python.\n\n I know Python. \n", "ab\ncd\nef\ngh\nij\nkl"}

GenOutcomes ==
    {[fault |-> "none", reply |-> r, logRaise |-> FALSE] : r \in RawReplies}
    \cup {[fault |-> f, reply |-> "", logRaise |-> b] :
             f \in GenFaults, b \in BOOLEAN}

NoSearch == [raised |-> FALSE, results |-> << >>]
NoGen == [fault |-> "none", reply |-> "", logRaise |-> FALSE]
NoEnv == [log |-> {}, search |-> NoSearch, formatRaise |-> FALSE,
          gen1 |-> NoGen, gen2 |-> NoGen]

\* The choices the environment has at a step of a run: S when the run under
\* env gets to the step, nothing to choose (d) when it does not.
Choices(question, env, step, S, d) ==
    IF step \in RAG_query(question, env).reached THEN S ELSE {d}

Raise(env, site, b) == IF b THEN [env EXCEPT !.log = @ \cup {site}] ELSE env

\* A variant of query that keeps the question in the collection.
QueryFrameStoring ==
    /\ collection' = collection \cup
           {[id |-> 0, document |-> "asked", metadata |-> [source |-> "query"]]}
    /\ UNCHANGED <<nextId, documents_path, rag, added, restartsOnly>>

\* What query writes: similarity_search only reads the collection, and no
\* statement of query, _format_context or generate_response assigns to a
\* field of the RAGSystem or of its components.
QueryFrame ==
    UNCHANGED <<collection, nextId, documents_path, rag, added, restartsOnly>>

\* The loop of the command line interface (src/src/main.py) reads a
\* question and calls rag.query(question); the answer is held until it is
\* printed.  The environment's answers to the calls query makes are chosen
\* in the order in which the run asks for them.
Query ==
    /\ rag = "up"
    /\ last.op # "query"
    /\ \E question \in Questions :
       \E l78 \in BOOLEAN :
       \E e1 \in {Raise(NoEnv, "L78", l78)} :
       \E search \in Choices(question, e1, "search",
                     VS_similarity_search(collection, question, DefaultK),
                     NoSearch) :
       \E e2 \in {[e1 EXCEPT !.search = search]} :
       \E formatRaise \in Choices(question, e2, "parts", BOOLEAN, FALSE) :
       \E e3 \in {[e2 EXCEPT !.formatRaise = formatRaise]} :
       \E l122 \in Choices(question, e3, "L122", BOOLEAN, FALSE) :
       \E e4 \in {Raise(e3, "L122", l122)} :
       \E gen1 \in Choices(question, e4, "gen1", GenOutcomes, NoGen) :
       \E e5 \in {[e4 EXCEPT !.gen1 = gen1]} :
       \E l95 \in Choices(question, e5, "L95", BOOLEAN, FALSE) :
       \E e6 \in {Raise(e5, "L95", l95)} :
       \E l99 \in Choices(question, e6, "L99", BOOLEAN, FALSE) :
       \E e7 \in {Raise(e6, "L99", l99)} :
       \E gen2 \in Choices(question, e7, "gen2", GenOutcomes, NoGen) :
       \E e8 \in {[e7 EXCEPT !.gen2 = gen2]} :
       \E l104 \in Choices(question, e8, "L104", BOOLEAN, FALSE) :
       \E r \in {RAG_query(question, Raise(e8, "L104", l104))} :
           /\ last' = [op |-> "query", question |-> question,
                       raised |-> r.raised, value |-> r.value,
                       logRaised |-> r.logRaised,
                       searchCalls |-> r.searchCalls,
                       searchRaised |-> r.searchRaised,
                       results |-> r.results,
                       formatRaised |-> r.formatRaised,
                       context |-> r.context, gens |-> r.gens,
                       fallback |-> r.fallback]
           /\ QueryFrame
           /\ UNCHANGED hostVars

\* print(f"\nBot: {response}\n"), or print(f"Error: {e}\n") when query
\* raised; the loop goes back to reading a question.
PrintResponse ==
    /\ last.op = "query"
    /\ last' = [op |-> "print"]
    /\ UNCHANGED <<collection, nextId, documents_path, rag, added,
                   restartsOnly>>
    /\ UNCHANGED hostVars

NextQuery ==
    \/ Construct
    \/ Query
    \/ PrintResponse

SpecQuery == Init /\ [][NextQuery]_vars

----------------------------------------------------------------------------
(* Properties of the query path, checked under SpecQuery.                  *)
(* last holds what the query just made did: the calls it made, what each   *)
(* met, and what it handed back.                                           *)

\* C1: query is total.  Whatever similarity_search, the formatting of the
\* context and the generate_response calls do (raise, fail, or reply with
\* any text), a query whose handler's own logger calls (lines 99 and 104)
\* return does not raise and returns a non-empty string.
C1_QueryTotal ==
    (last.op = "query" /\ last.logRaised \cap {"L99", "L104"} = {})
        => (~last.raised /\ Len(last.value) > 0)

\* The index and the language model both fail, and query returns.
C1_Witness ==
    /\ last.op = "query"
    /\ last.searchRaised
    /\ Len(last.gens) = 1
    /\ last.gens[1].fault = "remote"
    /\ ~last.raised

\* C2: the fallback of query.  A query makes at most one similarity_search
\* call and at most two generate_response calls.  When the handler's logger
\* calls return: if the search, the formatting or the generation with
\* context raised, generate_response(question) without context is called
\* exactly once as a retry, and if the retry raised as well query returns
\* the fixed apology of line 105.
C2_Fallback ==
    last.op = "query" =>
        /\ last.searchCalls <= 1
        /\ Len(last.gens) <= 2
        /\ last.logRaised \cap {"L99", "L104"} = {} =>
            LET main  == {i \in 1..Len(last.gens) : last.gens[i].phase = "main"}
                retry == {i \in 1..Len(last.gens) : last.gens[i].phase = "retry"}
            IN  /\ ( \/ last.searchRaised
                     \/ last.formatRaised
                     \/ \E i \in main : last.gens[i].raised )
                       => /\ Cardinality(retry) = 1
                          /\ \A i \in retry : last.gens[i].context = None
                /\ \A i \in retry :
                       last.gens[i].raised
                           => (~last.raised /\ last.value = RAG_APOLOGY)

\* The generation with context raised, the retry raised too, and the
\* apology came back.
C2_Witness ==
    /\ last.op = "query"
    /\ Len(last.gens) = 2
    /\ last.gens[1].phase = "main" /\ last.gens[1].raised
    /\ last.gens[2].phase = "retry" /\ last.gens[2].raised
    /\ last.gens[2].context = None
    /\ last.value = RAG_APOLOGY

\* C3: when the remote call fails during the generation with retrieved
\* context (all logger calls returning), query drops the context and retries
\* the generation once, and the apology of line 105 is returned only when
\* the retry failed too.
C3_RemoteFailureRetried ==
    ( /\ last.op = "query"
      /\ last.logRaised = {}
      /\ last.gens # << >>
      /\ last.gens[1].phase = "main"
      /\ last.gens[1].context # None
      /\ last.gens[1].fault = "remote"
      /\ ~last.gens[1].logRaised )
        => /\ Len(last.gens) = 2
           /\ last.gens[2].phase = "retry"
           /\ last.gens[2].context = None
           /\ last.value = RAG_APOLOGY => last.gens[2].fault # "none"

\* C4: generate_response does not raise.  In every call whose handler's
\* logger call (line 80) returns, a failure while building the system
\* message, in the remote call, while reading the reply or while cleaning
\* it ends in the fixed apology of line 81, not in an exception.
C4_GenerateNeverRaises ==
    last.op = "query" =>
        \A i \in 1..Len(last.gens) :
            ~last.gens[i].logRaised
                => /\ ~last.gens[i].raised
                   /\ last.gens[i].fault \in GenFaults
                          => last.gens[i].value = LLM_APOLOGY

\* A call in which reading the reply failed and the apology came back.
C4_Witness ==
    /\ last.op = "query"
    /\ last.gens # << >>
    /\ last.gens[1].fault = "extract"
    /\ ~last.gens[1].raised
    /\ last.gens[1].value = LLM_APOLOGY

\* C5: logger calls are pure observers of query.  Without a failing logger
\* call a query makes one similarity_search call and one generate_response
\* call, the latter in the handler exactly when the search or the
\* formatting raised; whatever the logger calls do, query returns an answer
\* and takes that same path.
C5_LoggingPureObserver ==
    last.op = "query" =>
        /\ ~last.raised
        /\ last.searchCalls = 1
        /\ Len(last.gens) = 1
        /\ last.fallback <=> (last.searchRaised \/ last.formatRaised)

\* C11: query is stateless.  A query step leaves the collection and every
\* field of the RAGSystem as they were, and what it returns is fixed by the
\* call's own inputs: the results are an answer of the store to this
\* question over the current collection, the context is built from these
\* results, and the value is the cleaned reply of the last generate_response
\* call (or one of the two fixed apologies).
C11_QueryStateless ==
    [][ last'.op = "query" =>
          /\ UNCHANGED <<collection, nextId, documents_path, rag, added,
                         restartsOnly>>
          /\ (last'.searchCalls = 1 /\ ~last'.searchRaised)
                 => [raised |-> FALSE, results |-> last'.results]
                        \in VS_similarity_search(collection, last'.question,
                                                 DefaultK)
          /\ last'.context
                 \in {None, format_context(last'.results, FALSE, FALSE).value}
          /\ \A i \in 1..Len(last'.gens) :
                 /\ last'.gens[i].context
                        = IF last'.gens[i].phase = "main" THEN last'.context
                          ELSE None
                 /\ last'.gens[i].value
                        \in {"", LLM_APOLOGY}
                            \cup {clean_response(r) : r \in RawReplies}
          /\ ~last'.raised
                 => /\ last'.gens # << >>
                    /\ last'.value
                           = IF last'.gens[Len(last'.gens)].raised
                             THEN RAG_APOLOGY
                             ELSE last'.gens[Len(last'.gens)].value
      ]_vars

\* A query over a populated collection answered from two retrieved chunks.
C11_Witness ==
    /\ last.op = "query"
    /\ Cardinality(collection) = 2
    /\ Len(last.results) = 2
    /\ last.context # None
    /\ last.value = "I know Python."

----------------------------------------------------------------------------
(* State machine of the Streamlit host: one browser session, each step one *)
(* run of main().                                                          *)

\* Last tick of the clock in a behaviour.
MaxTime == 5

\* Longest chat history in a behaviour.
MaxMessages == 6

\* Rate limits a deployment may configure (both at least 1).
Configs ==
    {TestConfig,
     [max_requests_per_minute |-> 1, max_requests_per_hour |-> 2],
     [max_requests_per_minute |-> 2, max_requests_per_hour |-> 1]}

Prompts == {"py?"}

\* What the calls made by rag_system.query(prompt) can do in a run of main.
HostEnvs(coll, prompt) ==
    {[NoEnv EXCEPT !.search = s, !.gen1 = g, !.log = l] :
        s \in VS_similarity_search(coll, prompt, DefaultK),
        g \in {[fault |-> "none", reply |-> "I know Python.",
                logRaise |-> FALSE]},
        l \in {{}, {"L99"}}}

\* Lines 153-156 of main: the first run of a session initializes the
\* RAGSystem and keeps it (or None) under the key rag_system.
WithRagSystem(s, i) ==
    [session |-> s @@ ("rag_system" :> i.value),
     collection |-> i.collection, nextId |-> i.nextId,
     initialized |-> TRUE, constructed |-> i.constructed, stats |-> i.stats]

EnsureRagSystem(coll, nid, path, s, fault, countRaise) ==
    IF "rag_system" \in DOMAIN s
    THEN [session |-> s, collection |-> coll, nextId |-> nid,
          initialized |-> FALSE, constructed |-> FALSE, stats |-> None]
    ELSE WithRagSystem(s, initialize_rag_system(coll, nid, path, fault,
                                                countRaise))

\* Lines 163-164 of main.
WithMessages(s) ==
    IF "messages" \in DOMAIN s THEN s ELSE s @@ ("messages" :> << >>)

\* A main whose append of the assistant message sits inside the try block:
\* nothing is appended for a query that raised.
AnsweredInsideTry(c, prompt, current_time, q) ==
    [session |-> [c.session EXCEPT !.messages =
                     @ \o << [role |-> "user", content |-> prompt] >>
                       \o (IF q.raised THEN << >>
                           ELSE << [role |-> "assistant",
                                    content |-> q.value] >>)],
     stopped |-> FALSE, checked |-> TRUE, allowed |-> c.allowed,
     message |-> c.message, queried |-> TRUE, queryRaised |-> q.raised,
     response |-> <<IF q.raised THEN RAG_APOLOGY ELSE q.value>>,
     logged |-> None]

\* Lines 186-225 of main, c being what check_rate_limit returned and q what
\* rag_system.query(prompt) did: the user message is appended, the answer
\* (the apology of line 210 when query raised) is shown and appended.
Answered(c, prompt, current_time, q) ==
    [session |-> [c.session EXCEPT !.messages =
                     @ \o << [role |-> "user", content |-> prompt],
                             [role |-> "assistant",
                              content |-> IF q.raised THEN RAG_APOLOGY
                                          ELSE q.value] >>],
     stopped |-> FALSE, checked |-> TRUE, allowed |-> c.allowed,
     message |-> c.message, queried |-> TRUE, queryRaised |-> q.raised,
     response |-> <<IF q.raised THEN RAG_APOLOGY ELSE q.value>>,
     logged |-> IF q.raised THEN None
                ELSE <<log_chat_interaction(
                           prompt, q.value,
                           [session_id |-> "session-1",
                            response_time |-> current_time,
                            rag_system_model |-> ModelName])>>]

\* A host that answers the prompt whatever the rate limiter said.
ThrottledNever(c, prompt, current_time, q) ==
    Answered(c, prompt, current_time, q)

\* Lines 178-183 of main, c being what check_rate_limit returned.
Throttled(c, prompt, current_time, q) ==
    IF c.allowed THEN Answered(c, prompt, current_time, q)
    ELSE [session |-> c.session, stopped |-> FALSE, checked |-> TRUE,
          allowed |-> c.allowed, message |-> c.message, queried |-> FALSE,
          queryRaised |-> FALSE, response |-> None, logged |-> None]

\* Lines 158-225 of main: stop when there is no RAGSystem, else show the
\* history and handle the prompt, if one was submitted.
Chat(cfg, s, prompt, current_time, q) ==
    IF s.rag_system = None
    THEN [session |-> s, stopped |-> TRUE, checked |-> FALSE,
          allowed |-> FALSE, message |-> None, queried |-> FALSE,
          queryRaised |-> FALSE, response |-> None, logged |-> None]
    ELSE IF prompt = None
    THEN [session |-> WithMessages(s), stopped |-> FALSE, checked |-> FALSE,
          allowed |-> FALSE, message |-> None, queried |-> FALSE,
          queryRaised |-> FALSE, response |-> None, logged |-> None]
    ELSE Throttled(check_rate_limit(cfg, WithMessages(s), current_time),
                   prompt[1], current_time, q)

InitHost ==
    /\ collection = {}
    /\ nextId = 0
    /\ documents_path = "data/documents"
    /\ rag = "none"
    /\ added = 0
    /\ restartsOnly = TRUE
    /\ last = [op |-> "start"]
    /\ config \in Configs
    /\ now = 0
    /\ session = NoKeys
    /\ loggers = NoLoggers
    /\ starting = NoStarting

\* One run of main() in the session, some time after the previous one, with
\* or without a submitted prompt.
Main ==
    \E t \in now..MaxTime :
    \E prompt \in {None} \cup {Some(p) : p \in Prompts} :
    \E fault \in IF "rag_system" \in DOMAIN session THEN {"none"}
                 ELSE {"none", "vector_store", "count", "load"} :
    \E countRaise \in IF "rag_system" \in DOMAIN session THEN {FALSE}
                      ELSE BOOLEAN :
    \E i \in {EnsureRagSystem(collection, nextId, documents_path, session,
                              fault, countRaise)} :
    \E e \in IF prompt = None THEN {NoEnv}
             ELSE HostEnvs(i.collection, prompt[1]) :
    \E q \in {IF prompt = None THEN NoTrace ELSE RAG_query(prompt[1], e)} :
    \E m \in {Chat(config, i.session, prompt, t, q)} :
        /\ "messages" \in DOMAIN m.session
               => Len(m.session.messages) <= MaxMessages
        /\ now' = t
        /\ session' = m.session
        /\ collection' = i.collection
        /\ nextId' = i.nextId
        /\ rag' = IF i.constructed THEN "up" ELSE rag
        /\ added' = Cardinality(i.collection)
        /\ last' = [op |-> "main", prompt |-> prompt, time |-> t,
                    initialized |-> i.initialized, stats |-> i.stats,
                    stopped |-> m.stopped, checked |-> m.checked,
                    allowed |-> m.allowed, message |-> m.message,
                    queried |-> m.queried, queryRaised |-> m.queryRaised,
                    response |-> m.response, logged |-> m.logged,
                    countRaise |-> countRaise,
                    granted |-> (IF last.op = "main" THEN last.granted
                                 ELSE << >>)
                                \o (IF m.checked /\ m.allowed THEN <<t>>
                                    ELSE << >>),
                    history |-> IF "messages" \in DOMAIN session
                                THEN Len(session.messages) ELSE 0,
                    before |-> IF "request_times" \in DOMAIN session
                               THEN session.request_times ELSE << >>]
        /\ UNCHANGED <<documents_path, restartsOnly, config, loggers, starting>>

NextHost == Main

SpecHost == InitHost /\ [][NextHost]_vars

----------------------------------------------------------------------------
(* Properties of the Streamlit host, checked under SpecHost.               *)

\* C15: get_stats does not raise.  It returns the map with documents_loaded
\* equal to the collection count, collection_name and model, or, when the
\* count cannot be read, a map with the key "error"; initialize_rag_system
\* yields None whenever that key is present, and a session without a
\* RAGSystem stops before the chat: no query is made.
C15_StatsGateInitialization ==
    last.op = "main" =>
        /\ (last.initialized /\ last.stats # None) =>
               /\ last.countRaise
                      => /\ "error" \in DOMAIN last.stats[1]
                         /\ session.rag_system = None
               /\ ~last.countRaise
                      => /\ DOMAIN last.stats[1]
                                = {"documents_loaded", "vector_store_path",
                                   "collection_name", "model"}
                         /\ last.stats[1].documents_loaded
                                = Cardinality(collection)
                         /\ last.stats[1].collection_name = "career_docs"
                         /\ last.stats[1].model = ModelName
        /\ session.rag_system = None => (last.stopped /\ ~last.queried)

\* The count could not be read during initialization, and a prompt
\* submitted to that session is not answered.
C15_Witness ==
    /\ last.op = "main"
    /\ last.initialized
    /\ last.countRaise
    /\ last.stats # None
    /\ last.prompt # None
    /\ session.rag_system = None
    /\ ~last.queried

\* C16: the decision of check_rate_limit.  With the recorded times that are
\* an hour old or older set aside, the call is refused with the per-minute
\* message when at least max_requests_per_minute times are less than a
\* minute old, else refused with the per-hour message when at least
\* max_requests_per_hour times remain, else allowed with no message.  The
\* first request of a session is allowed.
C16_RateLimitDecision ==
    (last.op = "main" /\ last.checked) =>
        /\ IF Len(Younger(last.before, last.time, MinuteLen))
                  >= config.max_requests_per_minute
           THEN /\ ~last.allowed
                /\ last.message
                       = <<PerMinuteMessage(config.max_requests_per_minute)>>
           ELSE IF Len(Younger(last.before, last.time, HourLen))
                       >= config.max_requests_per_hour
           THEN /\ ~last.allowed
                /\ last.message
                       = <<PerHourMessage(config.max_requests_per_hour)>>
           ELSE last.allowed /\ last.message = None
        /\ last.before = << >> => last.allowed

\* Both limits are reached and the per-minute message is given.
C16_Witness ==
    /\ last.op = "main"
    /\ last.checked
    /\ Len(Younger(last.before, last.time, MinuteLen))
           >= config.max_requests_per_minute
    /\ Len(Younger(last.before, last.time, HourLen))
           >= config.max_requests_per_hour
    /\ last.message = <<PerMinuteMessage(config.max_requests_per_minute)>>

\* C17: the state update of check_rate_limit.  After a call request_times
\* is the list of the earlier times that are less than an hour old, in
\* their order, followed by the current time when the call was allowed and
\* by nothing when it was refused.
C17_RequestTimesUpdate ==
    (last.op = "main" /\ last.checked) =>
        session.request_times
            = Younger(last.before, last.time, HourLen)
                  \o (IF last.allowed THEN <<last.time>> ELSE << >>)

\* A refused call that dropped a time an hour old and kept a younger one.
C17_Witness ==
    /\ last.op = "main"
    /\ last.checked
    /\ ~last.allowed
    /\ session.request_times # << >>
    /\ Len(session.request_times) < Len(last.before)

\* C18: throttling comes before the query.  A run of main calls
\* rag_system.query only for a prompt that check_rate_limit allowed in that
\* run; a refused prompt is not passed to query and leaves the chat history
\* as it was.
C18_ThrottleBeforeQuery ==
    last.op = "main" =>
        /\ last.queried => (last.checked /\ last.allowed)
        /\ (last.checked /\ ~last.allowed)
               => /\ ~last.queried
                  /\ Len(session.messages) = last.history
        /\ (last.prompt # None /\ ~last.stopped) => last.checked

\* A prompt refused in a session that has a chat history.
C18_Witness ==
    /\ last.op = "main"
    /\ last.checked
    /\ ~last.allowed
    /\ ~last.queried
    /\ last.history = 2
    /\ Len(session.messages) = 2

----------------------------------------------------------------------------
(* The get_logger state machine: the threads of the process step through   *)
(* get_logger() one statement part at a time, in any interleaving.          *)

appVars == <<collection, nextId, documents_path, rag, added, restartsOnly,
             last, config, now, session, starting>>

\* Thread t calls get_logger().
GetLoggerCall(t) ==
    /\ loggers.pc[t] = "idle"
    /\ loggers.calls[t] < MaxCalls
    /\ loggers' = [loggers EXCEPT !.pc[t] = "L295", !.calls[t] = @ + 1]
    /\ UNCHANGED appVars

\* if _logger_instance is None:
GetLoggerTest(t) ==
    /\ loggers.pc[t] = "L295"
    /\ loggers' = [loggers EXCEPT
                       !.pc[t] = IF loggers.instance = None
                                 THEN "L296" ELSE "L297"]
    /\ UNCHANGED appVars

\* The right-hand side of line 296: GCPLogger() runs the constructor and
\* yields a new object.
GetLoggerConstruct(t) ==
    /\ loggers.pc[t] = "L296"
    /\ loggers' = [loggers EXCEPT
                       !.constructed = @ + 1,
                       !.made[t] = Some(loggers.constructed + 1),
                       !.pc[t] = "L296_store"]
    /\ UNCHANGED appVars

\* The assignment of line 296: _logger_instance = <the new object>.
GetLoggerStore(t) ==
    /\ loggers.pc[t] = "L296_store"
    /\ loggers' = [loggers EXCEPT
                       !.instance = loggers.made[t],
                       !.made[t] = None,
                       !.pc[t] = "L297"]
    /\ UNCHANGED appVars

\* return _logger_instance
GetLoggerReturn(t) ==
    /\ loggers.pc[t] = "L297"
    /\ loggers' = [loggers EXCEPT
                       !.held[t] = loggers.instance,
                       !.pc[t] = "idle"]
    /\ UNCHANGED appVars

NextLogger ==
    \E t \in Sessions :
        \/ GetLoggerCall(t)
        \/ GetLoggerTest(t)
        \/ GetLoggerConstruct(t)
        \/ GetLoggerStore(t)
        \/ GetLoggerReturn(t)

SpecLogger == Init /\ [][NextLogger]_vars

\* C19: get_logger is a singleton.  Whatever the number of calls and their
\* interleaving across the threads of the process, the GCPLogger
\* constructor has run at most once and every caller that has got an object
\* back holds the same one.
C19_SingleLoggerInstance ==
    /\ loggers.constructed <= 1
    /\ \A s, t \in Sessions :
           (loggers.held[s] # None /\ loggers.held[t] # None)
               => loggers.held[s] = loggers.held[t]

----------------------------------------------------------------------------
(* The chunking state machine: chunk_documents applied to document texts.  *)

\* The strings over Alphabet of length at most n.
RECURSIVE StringsOf(_)
StringsOf(n) ==
    IF n = 0 THEN {""}
    ELSE {""} \cup {s \o c : s \in StringsOf(n - 1), c \in Alphabet}

DocTexts == StringsOf(MaxText)

\* The inputs of chunk_documents: no document or one document, and a
\* processor whose chunk_overlap does not exceed its chunk_size (the
\* splitter cannot be built otherwise).
InitChunk ==
    /\ collection = {}
    /\ nextId = 0
    /\ documents_path = "data/documents"
    /\ rag = "none"
    /\ added = 0
    /\ restartsOnly = TRUE
    /\ config = TestConfig
    /\ now = 0
    /\ session = NoKeys
    /\ loggers = NoLoggers
    /\ starting = NoStarting
    /\ \E text \in DocTexts :
       \E chunk_size \in 1..MaxChunkSize :
       \E chunk_overlap \in 0..chunk_size :
       \E documents \in {<< >>,
                         <<[page_content |-> text,
                            metadata |-> [source |-> "cv.md"]]>>} :
           last = [op |-> "DocumentProcessor",
                   documents |-> documents,
                   chunk_size |-> chunk_size,
                   chunk_overlap |-> chunk_overlap]

\* processor.chunk_documents(documents)
ChunkDocuments ==
    /\ last.op = "DocumentProcessor"
    /\ last' = [op |-> "chunk_documents",
                documents |-> last.documents,
                chunk_size |-> last.chunk_size,
                chunk_overlap |-> last.chunk_overlap,
                chunks |-> DocumentProcessor_chunk_documents(
                               last.documents, last.chunk_size,
                               last.chunk_overlap)]
    /\ UNCHANGED <<collection, nextId, documents_path, rag, added,
                   restartsOnly>>
    /\ UNCHANGED hostVars

NextChunk == ChunkDocuments

SpecChunk == InitChunk /\ [][NextChunk]_vars

\* C20: every chunk that chunk_documents produces is at most chunk_size
\* characters long plus a slack of half of chunk_size (150 characters for a
\* chunk_size of 100), whatever the document.
C20_ChunkLengthBounded ==
    last.op = "chunk_documents" =>
        \A i \in 1..Len(last.chunks) :
            Len(last.chunks[i].page_content)
                <= last.chunk_size + (last.chunk_size \div 2)

\* A document longer than the bound, with a word longer than chunk_size,
\* was cut into several chunks, one of them chunk_size long.
C20_Witness ==
    /\ last.op = "chunk_documents"
    /\ Len(last.documents) = 1
    /\ Len(last.documents[1].page_content)
           > last.chunk_size + (last.chunk_size \div 2)
    /\ last.chunk_size = 2
    /\ FirstAt(last.documents[1].page_content, "aaa", 1) # 0
    /\ Len(last.chunks) > 1
    /\ \E i \in 1..Len(last.chunks) :
           Len(last.chunks[i].page_content) = last.chunk_size

----------------------------------------------------------------------------
(* Properties of the logging of chat interactions, checked under SpecHost. *)

\* C21: log_chat_interaction emits one INFO record whose payload has
\* event_type "chat_interaction", the given user_input and bot_response,
\* the metadata of the caller under the key "metadata" (so that
\* payload.metadata.session_id is the session id of the caller), and the
\* service and environment of the logger.
C21_ChatInteractionPayload ==
    (last.op = "main" /\ last.logged # None) =>
        /\ last.logged[1].level = "INFO"
        /\ last.logged[1].payload.event_type = "chat_interaction"
        /\ last.logged[1].payload.user_input = last.prompt[1]
        /\ last.logged[1].payload.bot_response = last.response[1]
        /\ "metadata" \in DOMAIN last.logged[1].payload
        /\ last.logged[1].payload.metadata.session_id = "session-1"
        /\ "service" \in DOMAIN last.logged[1].payload
        /\ "environment" \in DOMAIN last.logged[1].payload

----------------------------------------------------------------------------
(* Properties of the context and of the reply, checked under SpecQuery.    *)

\* C22: an empty search result is a normal state.  When similarity_search
\* returns no hits (and the logger calls on the way return),
\* _format_context returns None and not the empty string,
\* generate_response is called exactly once, with no context, and the
\* fallback branch of query is not entered.
C22_EmptySearchIsNormal ==
    ( /\ last.op = "query"
      /\ last.searchCalls = 1
      /\ ~last.searchRaised
      /\ last.results = << >>
      /\ last.logRaised = {}
      /\ \A i \in 1..Len(last.gens) : ~last.gens[i].logRaised )
        => /\ last.context = None
           /\ ~last.formatRaised
           /\ Len(last.gens) = 1
           /\ last.gens[1].phase = "main"
           /\ last.gens[1].context = None
           /\ ~last.fallback
           /\ ~last.raised

\* A question asked over an empty index got the reply of the model.
C22_Witness ==
    /\ last.op = "query"
    /\ collection = {}
    /\ last.searchCalls = 1
    /\ ~last.searchRaised
    /\ last.results = << >>
    /\ last.context = None
    /\ Len(last.gens) = 1
    /\ last.gens[1].fault = "none"
    /\ last.value = "I know Python."

----------------------------------------------------------------------------
(* src/gcpCredentials.py: GCPCredentials.get_gcp_credentials().             *)
(* The environment of a call:                                               *)
(*   secret   st.secrets["gcp_service_account"]: "absent", "valid" (the     *)
(*            info of a service account) or "malformed" (an info that       *)
(*            from_service_account_info rejects with ValueError)            *)
(*   cloud    google.cloud.logging can be imported                          *)
(*   oauth2   google.oauth2.service_account can be imported                 *)
(*   env      GOOGLE_APPLICATION_CREDENTIALS: "unset", "valid" (the JSON of *)
(*            a service account), "not_json" (json.loads raises) or         *)
(*            "malformed" (JSON that from_service_account_info rejects)     *)

\* GCPCredentials._get_streamlit_credentials(), called when the secret is
\* there: gcp_logging_available is what __init__ found, both imports
\* having succeeded.
get_streamlit_credentials(e) ==
    IF e.cloud /\ e.oauth2
    THEN IF e.secret = "valid"
         THEN [raised |-> FALSE, value |-> Some("streamlit")]
         ELSE [raised |-> TRUE, value |-> None]
    ELSE [raised |-> FALSE, value |-> None]

\* GCPCredentials.get_gcp_credentials(): the secret of Streamlit when there
\* is one, else the JSON of the environment variable; an ImportError of
\* line 80 is not caught, JSONDecodeError and ValueError are.
get_gcp_credentials(e) ==
    IF e.secret # "absent" THEN get_streamlit_credentials(e)
    ELSE IF e.env = "unset" THEN [raised |-> FALSE, value |-> None]
    ELSE IF ~e.oauth2 THEN [raised |-> TRUE, value |-> None]
    ELSE IF e.env = "valid" THEN [raised |-> FALSE, value |-> Some("env")]
    ELSE [raised |-> FALSE, value |-> None]

----------------------------------------------------------------------------
(* Calls of the components on given inputs: the pipeline of query on given *)
(* search results (_format_context on a list of results, then              *)
(* generate_response with the context it returned), and the credentials    *)
(* the LLMInterface asks for when it is built.                              *)

\* The longest list of search results formatted.
MaxResults == 3

\* The documents and metadata of the results: a source with directories, a
\* bare file name, and a metadata without the key "source".
ResultParts ==
    [document : {"py", "ml"},
     metadata : {[source |-> "data/documents/cv.md"],
                 [source |-> "notes.md"],
                 [topic |-> "career"]}]

\* The texts the language model replies with.
ModelReplies ==
    {"", "  \n \n", "ok", "abc\ndefgh", "abcd\nefghi", "I know Python.",
     " I know Python.\n\n I know Python. \n",
     "a\n\nb\n \nc\nd\ne\nf",
     "l1\nl1\nl2\nl3\nl4\nl5\nl6",
     "l1\nl2\nl3\nl4\nl5\nl6\nl1"}

\* A list of search results (closest first) is at hand; what building the
\* context parts and the logger call of line 122 do is fixed with it.
InitCalls ==
    /\ collection = {}
    /\ nextId = 0
    /\ documents_path = "data/documents"
    /\ rag = "none"
    /\ added = 0
    /\ restartsOnly = TRUE
    /\ config = TestConfig
    /\ now = 0
    /\ session = NoKeys
    /\ loggers = NoLoggers
    /\ starting = NoStarting
    /\ \/ \E n \in 0..MaxResults :
          \E parts \in [1..n -> ResultParts] :
          \E loopRaise \in IF n = 0 THEN {FALSE} ELSE BOOLEAN :
          \E logRaise \in IF n = 0 \/ loopRaise THEN {FALSE} ELSE BOOLEAN :
              last = [op |-> "similarity_search",
                      results |-> [i \in 1..n |->
                                      [document |-> parts[i].document,
                                       metadata |-> parts[i].metadata,
                                       distance |-> i, id |-> i]],
                      loopRaise |-> loopRaise, logRaise |-> logRaise]
       \/ \E e \in [secret : {"absent", "valid", "malformed"},
                     cloud : BOOLEAN, oauth2 : BOOLEAN,
                     env : {"unset", "valid", "not_json", "malformed"}] :
              \* google-cloud-logging is installed with google-auth
              /\ e.cloud => e.oauth2
              /\ last = [op |-> "GCPCredentials", environment |-> e]

\* context = self._format_context(relevant_chunks)
FormatContext ==
    /\ last.op = "similarity_search"
    /\ \E f \in {format_context(last.results, last.loopRaise, last.logRaise)} :
           last' = [op |-> "_format_context", chunks |-> last.results,
                    raised |-> f.raised, value |-> f.value]
    /\ UNCHANGED <<collection, nextId, documents_path, rag, added,
                   restartsOnly>>
    /\ UNCHANGED hostVars

\* self.llm_interface.generate_response(prompt=question, context=context),
\* the model replying with a text or a step of the call raising.
GenerateResponse ==
    /\ last.op = "_format_context"
    /\ ~last.raised
    /\ \E out \in {[fault |-> "none", reply |-> r, logRaise |-> FALSE] :
                      r \in ModelReplies}
                  \cup {[fault |-> f, reply |-> "", logRaise |-> b] :
                           f \in GenFaults, b \in BOOLEAN} :
       \E g \in {generate_response("py?", last.value, out)} :
           last' = [op |-> "generate_response", context |-> last.value,
                    fault |-> out.fault, reply |-> out.reply,
                    system_instruction |->
                        GenerateTry("py?", last.value, out)
                            .request.system_instruction,
                    raised |-> g.raised, value |-> g.value]
    /\ UNCHANGED <<collection, nextId, documents_path, rag, added,
                   restartsOnly>>
    /\ UNCHANGED hostVars

\* credentials = gcp_creds.get_gcp_credentials()
GetGcpCredentials ==
    /\ last.op = "GCPCredentials"
    /\ \E r \in {get_gcp_credentials(last.environment)} :
           last' = [op |-> "get_gcp_credentials",
                    environment |-> last.environment,
                    raised |-> r.raised, value |-> r.value]
    /\ UNCHANGED <<collection, nextId, documents_path, rag, added,
                   restartsOnly>>
    /\ UNCHANGED hostVars

NextCalls ==
    \/ FormatContext
    \/ GenerateResponse
    \/ GetGcpCredentials

SpecCalls == InitCalls /\ [][NextCalls]_vars

\* C23: for a non-empty result list _format_context gives one block per
\* result, in the order of the results, joined by one blank line: block i
\* is "Experience i (from s):" followed on the next line by the text of
\* result i, s being what follows the last "/" of the result's metadata
\* source, or "Unknown source" when the metadata has no source.
C23_ContextBlocks ==
    (last.op = "_format_context" /\ last.chunks # << >> /\ ~last.raised) =>
        LET label(c) ==
                IF "source" \notin DOMAIN c.metadata THEN "Unknown source"
                ELSE SubSeq(c.metadata.source,
                            Max({0} \cup {p \in 1..Len(c.metadata.source) :
                                     Char(c.metadata.source, p) = "/"}) + 1,
                            Len(c.metadata.source))
            block(i) == "Experience " \o Str(i) \o " (from "
                           \o label(last.chunks[i]) \o "):\n"
                           \o last.chunks[i].document
        IN  /\ last.value # None
            /\ last.value[1]
                   = Join([i \in 1..Len(last.chunks) |-> block(i)], "\n\n")

\* Three results were formatted, among them one with a path as its source
\* and one without a source.
C23_Witness ==
    /\ last.op = "_format_context"
    /\ ~last.raised
    /\ Len(last.chunks) = 3
    /\ last.chunks[1].metadata = [source |-> "data/documents/cv.md"]
    /\ "source" \notin DOMAIN last.chunks[2].metadata
    /\ last.value # None

\* The lines of a reply, each without its leading and trailing whitespace.
StrippedLines(reply) ==
    [i \in 1..Len(Split(reply, "\n")) |-> Strip(Split(reply, "\n")[i])]

\* The distinct non-blank lines among lines, in the order of their first
\* occurrence.
DistinctNonBlank(lines) ==
    LET D == Range(lines) \ {""}
        first(x) == Min({i \in 1..Len(lines) : lines[i] = x})
    IN  [j \in 1..Cardinality(D) |->
            CHOOSE x \in D :
                Cardinality({y \in D : first(y) < first(x)}) = j - 1]

\* The first five distinct non-blank lines of a reply, one per line.
FirstFiveLines(reply) ==
    Join(Take(DistinctNonBlank(StrippedLines(reply)), 5), "\n")

\* C24: when the model replied and the first five distinct non-blank lines
\* of the reply make up at least 10 characters, the cleaned reply is these
\* lines, in the order of their first occurrence: no blank line, no line
\* twice, at most 5 lines, repeated lines dropped before the cut to 5.
C24_CleanedReplyLines ==
    ( /\ last.op = "generate_response"
      /\ last.fault = "none"
      /\ Len(FirstFiveLines(last.reply)) >= 10 )
        => /\ last.value = FirstFiveLines(last.reply)
           /\ Len(Split(last.value, "\n")) <= 5
           /\ \A i \in 1..Len(Split(last.value, "\n")) :
                  /\ Strip(Split(last.value, "\n")[i]) # ""
                  /\ \A j \in 1..Len(Split(last.value, "\n")) :
                         Split(last.value, "\n")[i] = Split(last.value, "\n")[j]
                             => i = j

\* A reply of seven lines, the first one repeated, came back as its five
\* first distinct lines.
C24_Witness ==
    /\ last.op = "generate_response"
    /\ last.reply = "l1\nl1\nl2\nl3\nl4\nl5\nl6"
    /\ last.value = "l1\nl2\nl3\nl4\nl5"

\* C25: when the first five distinct non-blank lines of the reply make up
\* fewer than 10 characters (an empty or blank reply included) the cleaned
\* reply is the request for more details; and every string that
\* generate_response returns has at least 10 characters.
C25_ShortReplyReplaced ==
    last.op = "generate_response" =>
        /\ (last.fault = "none" /\ Len(FirstFiveLines(last.reply)) < 10)
               => (~last.raised /\ last.value = CLARIFY)
        /\ ~last.raised => Len(last.value) >= 10

\* A reply of nine characters was replaced.
C25_Witness ==
    /\ last.op = "generate_response"
    /\ last.reply = "abc\ndefgh"
    /\ ~last.raised
    /\ last.value = CLARIFY

\* C26: the system instruction of a model call is the list of the 10
\* directives, the same and in the same order for every call, followed by
\* the context as its last element when the call has a context and by
\* nothing when it has none.
C26_SystemInstruction ==
    last.op = "generate_response" =>
        /\ Len(DIRECTIVES) = 10
        /\ SubSeq(last.system_instruction, 1, 10) = DIRECTIVES
        /\ last.system_instruction[1]
               = "Be positive and enthusiastic about opportunities"
        /\ last.system_instruction[10] = "I am not willing to relocate"
        /\ last.context = None => Len(last.system_instruction) = 10
        /\ last.context # None
               => /\ Len(last.system_instruction) = 11
                  /\ last.system_instruction[11] = last.context[1]

\* A call with the context of two results.
C26_Witness ==
    /\ last.op = "generate_response"
    /\ last.context # None
    /\ Len(last.system_instruction) = 11
    /\ last.system_instruction[11]
           = "Experience 1 (from cv.md):\npy\n\nExperience 2 (from notes.md):\nml"

\* C27: get_gcp_credentials tries its sources in sequence, the secret of
\* Streamlit and then the environment variable.  A call that returns gives
\* the credential of the first source that yields one, a source that
\* yields none being passed over, and gives None only when no source
\* yields a credential.
C27_FirstYieldingSource ==
    (last.op = "get_gcp_credentials" /\ ~last.raised) =>
        LET e == last.environment
            streamlit == e.secret = "valid" /\ e.cloud /\ e.oauth2
            env == e.env = "valid" /\ e.oauth2
        IN  last.value = IF streamlit THEN Some("streamlit")
                         ELSE IF env THEN Some("env")
                         ELSE None

----------------------------------------------------------------------------
(* Properties of the session over its runs, checked under SpecHost;        *)
(* last.granted lists the times of the requests allowed so far.            *)

\* C28: the sliding-window bound of the rate limiter.  In a session that
\* starts with no recorded request and reads a clock that never goes back,
\* the requests allowed within any window of one minute are at most
\* max_requests_per_minute and those within any window of one hour are at
\* most max_requests_per_hour.
C28_SlidingWindowBound ==
    last.op = "main" =>
        \A w \in 0..MaxTime :
            /\ Cardinality({i \in 1..Len(last.granted) :
                                w <= last.granted[i]
                                    /\ last.granted[i] < w + MinuteLen})
                   <= config.max_requests_per_minute
            /\ Cardinality({i \in 1..Len(last.granted) :
                                w <= last.granted[i]
                                    /\ last.granted[i] < w + HourLen})
                   <= config.max_requests_per_hour

\* The hourly limit is reached by requests no minute of which is full, a
\* further request is refused for it, and an earlier request has left the
\* hour.
C28_Witness ==
    /\ last.op = "main"
    /\ last.checked
    /\ ~last.allowed
    /\ last.message = <<PerHourMessage(config.max_requests_per_hour)>>
    /\ Len(last.granted) > config.max_requests_per_hour

----------------------------------------------------------------------------
(* The start-up state machine: the constructors step through               *)
(* _initialize_documents, in any interleaving.                              *)

\* existing_count = self.vector_store.collection.count(), which may raise
\* (the handler of line 71 then logs and the constructor goes on).
StartCount(p) ==
    /\ starting.pc[p] = "new"
    /\ \E countRaise \in BOOLEAN :
           /\ starting' = [starting EXCEPT
                  !.pc[p] = IF countRaise THEN "done" ELSE "counted",
                  !.existing_count[p] =
                      IF countRaise THEN 0 ELSE Cardinality(collection),
                  !.failed[p] = countRaise]
           /\ last' = [op |-> "count", starter |-> p, raised |-> countRaise]
    /\ rag' = IF starting'.pc[p] = "done" THEN "up" ELSE rag
    /\ UNCHANGED <<collection, nextId, documents_path, added, restartsOnly,
                   config, now, session, loggers>>

\* The rest of _initialize_documents, and of the constructor.
StartLoad(p) ==
    /\ starting.pc[p] = "counted"
    /\ \E fault \in AddFaults :
       \E r \in {InitializeAfterCount(starting.existing_count[p], collection,
                                      nextId, documents_path, fault)} :
           /\ collection' = r.collection
           /\ nextId' = r.nextId
           /\ added' = added + r.stored
           /\ starting' = [starting EXCEPT !.pc[p] = "done",
                                           !.failed[p] = r.raised]
           /\ last' = [op |-> "load", starter |-> p, raised |-> r.raised,
                       attempted |-> r.attempted, stored |-> r.stored]
    /\ rag' = "up"
    /\ UNCHANGED <<documents_path, restartsOnly, config, now, session,
                   loggers>>

NextStartup == \E p \in Starters : StartCount(p) \/ StartLoad(p)

SpecStartup == Init /\ [][NextStartup]_vars

\* C29: start-up is safe under interleaving.  When the constructors that
\* ran side by side over the initially empty collection are all done and
\* none met an exception, every chunk of the documents directory is in the
\* collection exactly once: the count is the number of chunks.
C29_ConcurrentStartupLoadsOnce ==
    ( /\ \A p \in Starters : starting.pc[p] = "done"
      /\ \A p \in Starters : ~starting.failed[p] )
        => /\ Cardinality(collection) = Len(ConfiguredChunks)
           /\ \A i \in 1..Len(ConfiguredChunks) :
                  Copies(collection, ConfiguredChunks[i].page_content,
                         ConfiguredChunks[i].metadata)
                      = Occurrences(ConfiguredChunks, ConfiguredChunks[i])

====
